---- MODULE Spec2Model ----
(***************************************************************************)
(* A model of the 7on-next dashboard back end: the provision-northflank    *)
(* route with its detached deployment monitor, the legacy-table migration, *)
(* the ethical-profile recomputation, the handlers that call the gating    *)
(* service, and the memory delete handlers.                                *)
(*                                                                         *)
(* Every await of a handler is a scheduling point: an action is the code   *)
(* that runs between two awaits, together with the effect of the awaited   *)
(* call it resumes from.  The application database (Prisma) is taken to    *)
(* answer every query; the external services (Northflank, n8n, gating      *)
(* service, Ollama) answer nondeterministically.                           *)
(***************************************************************************)
EXTENDS Integers, Sequences, FiniteSets, TLC

(***************************************************************************)
(* Identities and bounds                                                   *)
(***************************************************************************)
Users == {"u1", "u2"}

\* Provisioning requests (invocations of POST provision-northflank).
Requests == {"r1", "r2"}

\* maxWaitTime / fastPollInterval of monitorN8nDeployment is 900000 / 30000
\* = 30 poll intervals; the model counts the elapsed time in poll intervals
\* and bounds the ceiling by MaxPolls intervals.
MaxPolls == 2

NoProject == <<"none", "none">>
TemplateProject(r) == <<"template", r>>
ManualProject(r) == <<"manual", r>>
ProjectIds == {NoProject} \cup ({"template", "manual"} \X Requests)

NoError == "null"

(***************************************************************************)
(* State                                                                   *)
(***************************************************************************)
VARIABLES
    \* ---- provision-northflank ----
    runningMonitors,   \* the module-level Set<string> of user ids
    user,              \* the User rows: [Users -> record]
    reqUser,           \* body.userId of each request
    pc,                \* where each POST invocation stands
    resp,              \* the response each POST invocation returned
    mon,               \* the monitorN8nDeployment call each POST started
    templateRuns       \* requests whose template run the platform accepted

provVars == <<runningMonitors, user, reqUser, pc, resp, mon, templateRuns>>

VARIABLES
    \* ---- the tenant database: legacy tables, interaction memories, profiles ----
    legacy,               \* rows of stm_good, stm_bad, stm_review, mcl_chains
    interaction_memories, \* the append-only table, in id order
    profiles,             \* ethical_profiles: [Users -> record or NoProfile]
    mig,                  \* the migration runs
    recalc,               \* the profile POST handler, per signed-in user
    recalcBy              \* which recomputation wrote the profile, if it
                          \* read the memories the user has now

dataVars == <<legacy, interaction_memories, profiles, mig, recalc, recalcBy>>

VARIABLES
    \* ---- memories and chat: memory_embeddings and the request last served ----
    memory_embeddings,    \* the rows, as [id, user_id]
    embeddingSeq,         \* how many ids gen_random_uuid() has handed out
    last                  \* the request last served and its response

memVars == <<memory_embeddings, embeddingSeq, last>>

VARIABLES
    \* ---- the growth stage computed for one aggregate ----
    stage,                \* the aggregate and the stage each recomputation
                          \* derived from it
    \* ---- one call of createN8nApiKey ----
    key,                  \* its position, attempts, waits and result
    \* ---- memories/setup ----
    setup                 \* caller, position and response of each request

VARIABLES
    \* ---- lora/train: training requests, their monitors, the tenant's rows ----
    train,                \* handler, caller, position and response of each request
    tmon,                 \* the background monitor each start request started
    training_jobs,        \* status of the training_jobs row of each request
    samples,              \* interaction_memories rows per tenant, by approval
    pendingApproval       \* whether the tenant's channel tables hold rows
                          \* whose approval flag is FALSE

trainVars == <<train, tmon, training_jobs, samples, pendingApproval>>

auxVars == <<stage, key, setup, trainVars>>

vars == <<provVars, dataVars, memVars, auxVars>>

(***************************************************************************)
(* provision-northflank: the user row                                      *)
(***************************************************************************)
InitialUserRow ==
    [ northflankProjectId       |-> NoProject,
      northflankProjectStatus   |-> "none",
      northflankWorkflowId      |-> "none",
      n8nUrl                    |-> FALSE,
      n8nApiKey                 |-> "none",
      n8nEncryptionKey          |-> FALSE,
      postgresSchemaInitialized |-> FALSE,
      n8nPostgresCredentialId   |-> "none",
      postgresSetupError        |-> NoError,
      n8nSetupError             |-> NoError,
      goodChannelCount          |-> 0,
      badChannelCount           |-> 0,
      mclChainCount             |-> 0,
      loraTrainingStatus        |-> "null",
      loraTrainingError         |-> NoError ]

IdleMonitor ==
    [ pc        |-> "idle",
      projectId |-> NoProject,
      n8nFound  |-> FALSE,
      elapsed   |-> 0,
      wrote     |-> "none" ]

InitProvision ==
    /\ runningMonitors = {}
    /\ user = [u \in Users |-> InitialUserRow]
    /\ reqUser \in [Requests -> Users]
    /\ pc = [r \in Requests |-> "start"]
    /\ resp = [r \in Requests |-> "none"]
    /\ mon = [r \in Requests |-> IdleMonitor]
    /\ templateRuns = {}

(***************************************************************************)
(* provision-northflank: POST                                              *)
(***************************************************************************)
\* db.user.update({ where: { id: u }, data }) overwrites the named fields.
UpdateUser(u, data) ==
    [user EXCEPT ![u] = [f \in DOMAIN @ |-> IF f \in DOMAIN data THEN data[f] ELSE @[f]]]

\* Lines 14-57.  request.json(), the userId/userEmail validation, the Clerk
\* id lookup (database row, else auth()), and, in the continuation of the
\* last of these awaits, the runningMonitors.has(userId) test.  The handler
\* then awaits db.user.findUnique (line 59).
POST_Begin(r) ==
    /\ pc[r] = "start"
    /\ \E outcome \in {"badJson", "missingFields", "noClerkId", "ok"} :
         CASE outcome = "badJson" ->
                \* request.json() rejects: the outer catch is entered with
                \* no body read
                /\ pc' = [pc EXCEPT ![r] = "catchNoBody"]
                /\ resp' = resp
           [] outcome \in {"missingFields", "noClerkId"} ->
                /\ pc' = [pc EXCEPT ![r] = "done"]
                /\ resp' = [resp EXCEPT ![r] = "400"]
           [] outcome = "ok" ->
                IF reqUser[r] \in runningMonitors
                THEN /\ pc' = [pc EXCEPT ![r] = "done"]
                     /\ resp' = [resp EXCEPT ![r] = "monitoring_active"]
                ELSE /\ pc' = [pc EXCEPT ![r] = "lookup"]
                     /\ resp' = resp
    /\ UNCHANGED <<runningMonitors, user, reqUser, mon, templateRuns>>

\* Lines 59-70 and 136-141.  The existing-user row arrives.  With a project
\* id the handler fetches the project (line 73); without one it adds the
\* user to runningMonitors and calls startSundayTemplate.
POST_Lookup(r) ==
    /\ pc[r] = "lookup"
    /\ IF user[reqUser[r]].northflankProjectId # NoProject
       THEN /\ pc' = [pc EXCEPT ![r] = "existing"]
            /\ UNCHANGED runningMonitors
       ELSE /\ runningMonitors' = runningMonitors \cup {reqUser[r]}
            /\ pc' = [pc EXCEPT ![r] = "template"]
    /\ UNCHANGED <<user, reqUser, resp, mon, templateRuns>>

\* createN8nApiKey (lines 478-553) never throws and always returns a key:
\* the one the REST call created, or the pre-generated fallback.
createN8nApiKey(restWorked) == IF restWorked THEN "rest" ELSE "pregenerated"

\* Lines 73-138.  The project fetch answers.  ok: the 'existing' response,
\* after filling in a missing n8nUrl (and a missing API key) when N8N_HOST
\* is available.  Not ok: the handler falls through to line 136 and starts a
\* new project.  A rejected fetch goes to the outer catch.
POST_ExistingProject(r) ==
    /\ pc[r] = "existing"
    /\ LET u == reqUser[r] IN
       \E outcome \in {"ok", "notOk", "throws"}, hostFound \in BOOLEAN, restWorked \in BOOLEAN :
         CASE outcome = "ok" ->
                /\ user' =
                     IF ~user[u].n8nUrl /\ hostFound
                     THEN IF user[u].n8nApiKey = "none" /\ user[u].n8nEncryptionKey
                          THEN UpdateUser(u, [n8nUrl |-> TRUE,
                                              n8nApiKey |-> createN8nApiKey(restWorked)])
                          ELSE UpdateUser(u, [n8nUrl |-> TRUE])
                     ELSE user
                /\ pc' = [pc EXCEPT ![r] = "done"]
                /\ resp' = [resp EXCEPT ![r] = "existing"]
                /\ UNCHANGED runningMonitors
           [] outcome = "notOk" ->
                /\ runningMonitors' = runningMonitors \cup {u}
                /\ pc' = [pc EXCEPT ![r] = "template"]
                /\ UNCHANGED <<user, resp>>
           [] outcome = "throws" ->
                /\ pc' = [pc EXCEPT ![r] = "catch"]
                /\ UNCHANGED <<user, resp, runningMonitors>>
    /\ UNCHANGED <<reqUser, mon, templateRuns>>

\* Mutant of POST_TemplateStarted: the row is written 'deploying' at once.
POST_TemplateStartedWritesDeploying(r) ==
    /\ pc[r] = "template"
    /\ user' = UpdateUser(reqUser[r],
                  [ northflankWorkflowId    |-> r,
                    n8nEncryptionKey        |-> TRUE,
                    northflankProjectStatus |-> "deploying" ])
    /\ templateRuns' = templateRuns \cup {r}
    /\ mon' = [mon EXCEPT ![r] = [IdleMonitor EXCEPT !.pc = "poll", !.wrote = "initiated"]]
    /\ pc' = [pc EXCEPT ![r] = "done"]
    /\ resp' = [resp EXCEPT ![r] = "initiated"]
    /\ UNCHANGED <<runningMonitors, reqUser>>

\* Lines 141-186.  startSundayTemplate resolved: the row is set to
\* 'initiated', then monitorN8nDeployment is called without await (it runs
\* to its first fetch) and the handler responds.
POST_TemplateStarted(r) ==
    /\ pc[r] = "template"
    /\ user' = UpdateUser(reqUser[r],
                  [ northflankWorkflowId    |-> r,
                    n8nEncryptionKey        |-> TRUE,
                    northflankProjectStatus |-> "initiated" ])
    /\ templateRuns' = templateRuns \cup {r}
    /\ mon' = [mon EXCEPT ![r] = [IdleMonitor EXCEPT !.pc = "poll", !.wrote = "initiated"]]
    /\ pc' = [pc EXCEPT ![r] = "done"]
    /\ resp' = [resp EXCEPT ![r] = "initiated"]
    /\ UNCHANGED <<runningMonitors, reqUser>>

\* Mutant of POST_TemplateFailed: the entry stays in runningMonitors.
POST_TemplateFailedKeepsEntry(r) ==
    /\ pc[r] = "template"
    /\ pc' = [pc EXCEPT ![r] = "manual"]
    /\ UNCHANGED <<runningMonitors, user, reqUser, resp, mon, templateRuns>>

\* Lines 187-191.  startSundayTemplate rejected (missing environment
\* variables, or a non-2xx answer): the user leaves runningMonitors and
\* createCompleteProject is called.
POST_TemplateFailed(r) ==
    /\ pc[r] = "template"
    /\ runningMonitors' = runningMonitors \ {reqUser[r]}
    /\ pc' = [pc EXCEPT ![r] = "manual"]
    /\ UNCHANGED <<user, reqUser, resp, mon, templateRuns>>

\* Lines 191-215.  createCompleteProject answers: the row becomes 'manual'
\* with the new project id, or the rejection reaches the outer catch.
POST_Manual(r) ==
    /\ pc[r] = "manual"
    /\ \E created \in BOOLEAN :
         IF created
         THEN /\ user' = UpdateUser(reqUser[r],
                            [ northflankProjectId     |-> ManualProject(r),
                              northflankProjectStatus |-> "manual",
                              n8nEncryptionKey        |-> TRUE ])
              /\ pc' = [pc EXCEPT ![r] = "done"]
              /\ resp' = [resp EXCEPT ![r] = "manual"]
         ELSE /\ pc' = [pc EXCEPT ![r] = "catch"]
              /\ UNCHANGED <<user, resp>>
    /\ UNCHANGED <<runningMonitors, reqUser, mon, templateRuns>>

\* Line 221.  The outer catch reads request.json() a second time.  The body
\* stream was consumed by the read at line 14, so the second read rejects
\* and .catch(() => ({})) supplies {}: body.userId is undefined.
RereadBodyUserId(r) == "undefined"

\* Lines 217-246.  The outer catch.
POST_Catch(r) ==
    /\ pc[r] \in {"catch", "catchNoBody"}
    /\ LET bodyUserId == RereadBodyUserId(r) IN
       IF bodyUserId # "undefined"
       THEN /\ runningMonitors' = runningMonitors \ {bodyUserId}
            /\ user' = UpdateUser(bodyUserId,
                          [ northflankProjectStatus |-> "failed",
                            n8nSetupError           |-> "err.message" ])
       ELSE UNCHANGED <<runningMonitors, user>>
    /\ pc' = [pc EXCEPT ![r] = "done"]
    /\ resp' = [resp EXCEPT ![r] = "500"]
    /\ UNCHANGED <<reqUser, mon, templateRuns>>

(***************************************************************************)
(* provision-northflank: monitorN8nDeployment                              *)
(***************************************************************************)
Monitoring(r) == mon[r].pc \in {"poll", "phase2", "setup"}

\* Mutant of LoopCondition: the ceiling compared with <= instead of <.
LoopConditionOffByOne(m) == m.elapsed <= MaxPolls /\ ~m.n8nFound

\* Line 700: Date.now() - startTime < maxWaitTime && !n8nFound, with the
\* elapsed time counted in poll intervals.
LoopCondition(m) == m.elapsed < MaxPolls /\ ~m.n8nFound

\* Lines 858 and 861: the sleep of fastPollInterval that ends an iteration.
Sleep(m) == [m EXCEPT !.elapsed = @ + 1, !.pc = "poll"]

\* Mutant of Monitor_Phase1: the row is written 'deploying' as soon as the
\* template run has been asked, whether or not it returned a project id.
Monitor_Phase1StatusFirst(r) ==
    /\ mon[r].pc = "poll"
    /\ LoopCondition(mon[r])
    /\ IF mon[r].projectId # NoProject
       THEN /\ mon' = [mon EXCEPT ![r].pc = "phase2"]
            /\ UNCHANGED user
       ELSE \E found \in BOOLEAN :
              IF found
              THEN /\ user' = UpdateUser(reqUser[r],
                                 [ northflankProjectId     |-> TemplateProject(r),
                                   northflankProjectStatus |-> "deploying" ])
                   /\ mon' = [mon EXCEPT ![r].projectId = TemplateProject(r),
                                         ![r].wrote = "deploying",
                                         ![r].pc = "phase2"]
              ELSE /\ mon' = [mon EXCEPT ![r] = Sleep(@)]
                   /\ user' = UpdateUser(reqUser[r],
                                 [ northflankProjectStatus |-> "deploying" ])
    /\ UNCHANGED <<runningMonitors, reqUser, pc, resp, templateRuns>>

\* Lines 700-723.  Phase 1 of an iteration: without a project id yet,
\* getProjectIdFromTemplate is asked; an id makes the row 'deploying'
\* (after addOllamaIngress, which catches its own errors).
Monitor_Phase1(r) ==
    /\ mon[r].pc = "poll"
    /\ LoopCondition(mon[r])
    /\ IF mon[r].projectId # NoProject
       THEN /\ mon' = [mon EXCEPT ![r].pc = "phase2"]
            /\ UNCHANGED user
       ELSE \E found \in BOOLEAN :
              IF found
              THEN /\ user' = UpdateUser(reqUser[r],
                                 [ northflankProjectId     |-> TemplateProject(r),
                                   northflankProjectStatus |-> "deploying" ])
                   /\ mon' = [mon EXCEPT ![r].projectId = TemplateProject(r),
                                         ![r].wrote = "deploying",
                                         ![r].pc = "phase2"]
              ELSE /\ mon' = [mon EXCEPT ![r] = Sleep(@)]
                   /\ UNCHANGED user
    /\ UNCHANGED <<runningMonitors, reqUser, pc, resp, templateRuns>>

\* Lines 726-732 and 858.  Phase 2: getN8nHostFromProject is asked; a host
\* sets n8nFound, otherwise the iteration ends with the sleep.
Monitor_Phase2(r) ==
    /\ mon[r].pc = "phase2"
    /\ \E hostFound \in BOOLEAN :
         IF hostFound
         THEN mon' = [mon EXCEPT ![r].n8nFound = TRUE, ![r].pc = "setup"]
         ELSE mon' = [mon EXCEPT ![r] = Sleep(@)]
    /\ UNCHANGED <<runningMonitors, user, reqUser, pc, resp, templateRuns>>

\* Mutant of PostgresSetup: the catch at line 821 drops the error message.
PostgresSetupSwallowsError(haveConnection) ==
    [ postgresSchemaInitialized |-> FALSE,
      n8nPostgresCredentialId   |-> "none",
      postgresSetupError        |-> NoError ]

\* Lines 775-824.  The Postgres block of the monitor.  getPostgresConnection
\* returning null throws inside the try.  With a connection, the arguments
\* of initializeEthicalGrowthSchema are evaluated first, and the second one
\* reads adminConnection, an identifier declared nowhere in the module: the
\* read throws a ReferenceError, which the catch at line 821 records.  The
\* schema and credential steps after it are never reached.
PostgresSetup(haveConnection) ==
    IF ~haveConnection
    THEN [ postgresSchemaInitialized |-> FALSE,
           n8nPostgresCredentialId   |-> "none",
           postgresSetupError        |-> "Failed to get Postgres connection" ]
    ELSE [ postgresSchemaInitialized |-> FALSE,
           n8nPostgresCredentialId   |-> "none",
           postgresSetupError        |-> "adminConnection is not defined" ]

\* Lines 826-846: the data of the final update.
ReadyUpdate(r, finalApiKey, pg) ==
    [ n8nUrl                    |-> TRUE,
      n8nEncryptionKey          |-> TRUE,
      n8nApiKey                 |-> finalApiKey,
      northflankProjectId       |-> mon[r].projectId,
      northflankProjectStatus   |-> "ready",
      postgresSchemaInitialized |-> pg.postgresSchemaInitialized,
      n8nPostgresCredentialId   |-> pg.n8nPostgresCredentialId,
      postgresSetupError        |-> pg.postgresSetupError ]

\* Mutant of Monitor_Ready: the return at line 854 is missing, so the
\* iteration ends with the sleep and the loop exits on n8nFound.
Monitor_ReadyNoReturn(r) ==
    /\ mon[r].pc = "setup"
    /\ \E restWorked \in BOOLEAN, haveConnection \in BOOLEAN :
         user' = UpdateUser(reqUser[r],
                    ReadyUpdate(r, createN8nApiKey(restWorked), PostgresSetup(haveConnection)))
    /\ mon' = [mon EXCEPT ![r].wrote = "ready", ![r].pc = "poll"]
    /\ UNCHANGED <<runningMonitors, reqUser, pc, resp, templateRuns>>

\* Lines 734-854.  N8N_HOST was found: the env var, the API key and the
\* Postgres block run (none of them throws past its own catch), the row is
\* written 'ready' whatever the Postgres block achieved, and the monitor
\* returns.
Monitor_Ready(r) ==
    /\ mon[r].pc = "setup"
    /\ \E restWorked \in BOOLEAN, haveConnection \in BOOLEAN :
         user' = UpdateUser(reqUser[r],
                    ReadyUpdate(r, createN8nApiKey(restWorked), PostgresSetup(haveConnection)))
    /\ mon' = [mon EXCEPT ![r].wrote = "ready", ![r].pc = "returned"]
    /\ UNCHANGED <<runningMonitors, reqUser, pc, resp, templateRuns>>

\* Lines 865-873.  The loop condition failed: the row is written 'timeout'.
Monitor_Timeout(r) ==
    /\ mon[r].pc = "poll"
    /\ ~LoopCondition(mon[r])
    /\ user' = UpdateUser(reqUser[r],
                  [ northflankProjectStatus |-> "timeout",
                    n8nSetupError |-> "N8N_HOST not available within time limit" ])
    /\ mon' = [mon EXCEPT ![r].wrote = "timeout", ![r].pc = "returned"]
    /\ UNCHANGED <<runningMonitors, reqUser, pc, resp, templateRuns>>

\* Mutant of Monitor_Finally: the callback leaves the set as it is.
Monitor_FinallyKeepsEntry(r) ==
    /\ mon[r].pc = "returned"
    /\ mon' = [mon EXCEPT ![r].pc = "done"]
    /\ UNCHANGED <<runningMonitors, user, reqUser, pc, resp, templateRuns>>

\* Lines 168-170.  The promise of monitorN8nDeployment settled: the
\* .finally callback removes the user from runningMonitors.
Monitor_Finally(r) ==
    /\ mon[r].pc = "returned"
    /\ runningMonitors' = runningMonitors \ {reqUser[r]}
    /\ mon' = [mon EXCEPT ![r].pc = "done"]
    /\ UNCHANGED <<user, reqUser, pc, resp, templateRuns>>

(***************************************************************************)
(* provision-northflank: specification                                     *)
(***************************************************************************)
HandlerStep(r) ==
    \/ POST_Lookup(r)
    \/ POST_ExistingProject(r)
    \/ POST_TemplateStarted(r)
    \/ POST_TemplateFailed(r)
    \/ POST_Manual(r)
    \/ POST_Catch(r)

MonitorStep(r) ==
    \/ Monitor_Phase1(r)
    \/ Monitor_Phase2(r)
    \/ Monitor_Ready(r)
    \/ Monitor_Timeout(r)
    \/ Monitor_Finally(r)

NextProvision ==
    /\ \E r \in Requests : POST_Begin(r) \/ HandlerStep(r) \/ MonitorStep(r)
    /\ UNCHANGED <<dataVars, memVars, auxVars>>

(***************************************************************************)
(* The tenant database (user_data_schema)                                  *)
(*                                                                         *)
(* Scores are kept in hundredths (0.5 is 50).  A legacy row carries one    *)
(* nullable score column: alignment_score in stm_good, severity_score and  *)
(* toxicity_score (taken equal) in stm_bad, intention_score, benefit_score *)
(* and necessity_score (taken equal) in mcl_chains.  Timestamp columns are *)
(* left out.  The legacy field of an interaction memory names the legacy  *)
(* row it was copied from (metadata.legacy_id where the code records it). *)
(***************************************************************************)
MaxLegacyRows == 2

MaxMemories == 2

NullScore == -1

NoLegacy == 0

Runs == {"m1", "m2"}

Tables == <<"good", "bad", "review", "mcl">>

LegacyIds == 1..MaxLegacyRows

Vec(sa, er, co, ig, gm, wi, tr) ==
    [self_awareness |-> sa, emotional_regulation |-> er, compassion |-> co,
     integrity |-> ig, growth_mindset |-> gm, wisdom |-> wi,
     transcendence |-> tr]

Dims == DOMAIN Vec(0, 0, 0, 0, 0, 0, 0)

\* Column defaults of ethical_profiles.
DefaultScores == Vec(30, 40, 40, 50, 40, 30, 20)

NoProfile ==
    [exists |-> FALSE, scores |-> DefaultScores, growth_stage |-> 2,
     total_interactions |-> 0, breakthrough_moments |-> 0]

NewProfile(total) ==
    [exists |-> TRUE, scores |-> DefaultScores, growth_stage |-> 2,
     total_interactions |-> total, breakthrough_moments |-> 0]

AbsentRow ==
    [present |-> FALSE, table |-> "good", user_id |-> "u1",
     migrated_to_interaction_memory |-> FALSE, score |-> NullScore]

\* The aggregate over no rows.
NoStats ==
    [avg |-> Vec(NullScore, NullScore, NullScore, NullScore, NullScore,
                 NullScore, NullScore),
     total_interactions |-> 0, wisdom_count |-> 0]

LegacyRow(t, u, s) ==
    [present |-> TRUE, table |-> t, user_id |-> u,
     migrated_to_interaction_memory |-> FALSE, score |-> s]

\* The messages the gating service will file, in the order of their ids.
LegacyPopulation ==
    <<LegacyRow("good", "u1", NullScore), LegacyRow("mcl", "u2", 90),
      LegacyRow("bad", "u1", 90), LegacyRow("review", "u2", NullScore)>>

IdleRun ==
    [phase |-> "idle", table |-> 1, impl |-> "legacy", userId |-> "all",
     stats |-> NoStats, rerun |-> FALSE]

\* No recomputation has written the profile from the present memories.
NoAuthor == [by |-> "none", twice |-> FALSE]

IdleRecalc == [phase |-> "idle", stats |-> NoStats, resp |-> "none"]

InitData ==
    /\ legacy = [i \in LegacyIds |-> AbsentRow]
    /\ interaction_memories = <<>>
    /\ profiles = [u \in Users |-> NoProfile]
    /\ mig = [m \in Runs |-> IdleRun]
    /\ recalc = [u \in Users |-> IdleRecalc]
    /\ recalcBy = [u \in Users |-> NoAuthor]

\* ---- SQL helpers ----
Coalesce(x, d) == IF x = NullScore THEN d ELSE x

Greatest(a, b) == IF a >= b THEN a ELSE b

RECURSIVE SetToSeq(_)
SetToSeq(S) ==
    IF S = {} THEN <<>>
    ELSE LET x == CHOOSE y \in S : \A z \in S : y <= z
         IN  <<x>> \o SetToSeq(S \ {x})

RECURSIVE SumSeq(_)
SumSeq(q) == IF q = <<>> THEN 0 ELSE Head(q) + SumSeq(Tail(q))

UserMemories(mems, u) == SelectSeq(mems, LAMBDA m : m.user_id = u)

\* The copies of legacy row i in interaction_memories.
Copies(mems, i) == Cardinality({k \in DOMAIN mems : mems[k].legacy = i})

\* ---- the rows a migration writes ----
\* jsonb_build_object of migrateLegacyData, per channel.
LegacyScores(table, s) ==
    CASE table = "good" -> Vec(Coalesce(s, 50), 50, 50, 50, 50, 50, 30)
      [] table = "bad" ->
            Vec(Greatest(30, 100 - Coalesce(s, 50)),
                Greatest(20, 100 - Coalesce(s, 50)), 40, 40, 50, 40, 20)
      [] table = "review" -> Vec(50, 50, 50, 50, 50, 50, 30)
      [] table = "mcl" ->
            Vec(Coalesce(s, 50), 60, Coalesce(s, 50), 60, 70,
                Greatest(60, Coalesce(s, 50)), 50)

\* jsonb_build_object of migrateGoodChannel .. migrateMCLChains.
EthicalScores(table, s) ==
    CASE table = "good" -> Vec(Coalesce(s, 60), 60, 60, 70, 70, 60, 40)
      [] table = "bad" ->
            Vec(Greatest(30, 100 - Coalesce(s, 50)),
                Greatest(20, 100 - Coalesce(s, 50)), 40, 40, 50, 40, 20)
      [] table = "review" -> Vec(50, 50, 50, 50, 50, 50, 30)
      [] table = "mcl" ->
            Vec(Coalesce(s, 60), 60, Coalesce(s, 60), 70, 70,
                Greatest(60, Coalesce(s, 60)), 50)

Classification(table) ==
    CASE table = "good" -> "growth_memory"
      [] table = "bad" -> "challenge_memory"
      [] table = "review" -> "neutral_interaction"
      [] table = "mcl" -> "wisdom_moment"

MigratedRow(impl, i) ==
    [user_id |-> legacy[i].user_id,
     classification |-> Classification(legacy[i].table),
     ethical_scores |->
        IF impl = "legacy" THEN LegacyScores(legacy[i].table, legacy[i].score)
        ELSE EthicalScores(legacy[i].table, legacy[i].score),
     legacy |-> i]

\* The rows an INSERT ... SELECT copies: every row of the table.
SelectWithoutFlagFilter(table, userId) ==
    {i \in LegacyIds :
        /\ legacy[i].present
        /\ legacy[i].table = table
        /\ (userId = "all" \/ legacy[i].user_id = userId)}

\* WHERE migrated_to_interaction_memory = FALSE [AND user_id = userId]
Unmigrated(table, userId) ==
    {i \in LegacyIds :
        /\ legacy[i].present
        /\ legacy[i].table = table
        /\ ~legacy[i].migrated_to_interaction_memory
        /\ (userId = "all" \/ legacy[i].user_id = userId)}

\* ---- profile recomputation ----
\* AVG((ethical_scores->>d)::float) over the rows where the key is present;
\* NULL when there is none.  The quotient is kept to whole hundredths.
Avg(mems, d) ==
    LET nn == SelectSeq(mems, LAMBDA m : m.ethical_scores[d] # NullScore)
    IN  IF nn = <<>> THEN NullScore
        ELSE SumSeq([k \in 1..Len(nn) |-> nn[k].ethical_scores[d]]) \div Len(nn)

\* The row the aggregate SELECT returns for user u.
Aggregate(mems, u) ==
    LET mine == UserMemories(mems, u)
    IN  [avg |-> [d \in Dims |-> Avg(mine, d)],
         total_interactions |-> Len(mine),
         wisdom_count |->
            Len(SelectSeq(mine, LAMBDA m : m.classification = "wisdom_moment"))]

\* JavaScript's x || d on a number or null.
OrDefault(x, d) == IF x = NullScore \/ x = 0 THEN d ELSE x

\* Mutant of GrowthStage: the boundaries belong to the lower stage.
GrowthStageInclusive(sum) ==
    IF sum <= 210 THEN 1
    ELSE IF sum <= 350 THEN 2
    ELSE IF sum <= 490 THEN 3
    ELSE IF sum <= 595 THEN 4
    ELSE 5

\* The seven scores sum to 7 * avgScore: 0.3 is 210, 0.5 is 350, ...
GrowthStage(sum) ==
    IF sum < 210 THEN 1
    ELSE IF sum < 350 THEN 2
    ELSE IF sum < 490 THEN 3
    ELSE IF sum < 595 THEN 4
    ELSE 5

\* Fallbacks of updateEthicalProfile and of the profile POST.
UpdateDefaults == Vec(50, 50, 50, 50, 50, 50, 30)

RecalcDefaults == Vec(30, 40, 40, 50, 40, 30, 20)

SumScores(v) ==
    v.self_awareness + v.emotional_regulation + v.compassion + v.integrity
        + v.growth_mindset + v.wisdom + v.transcendence

\* A recomputation that folds the aggregate into the stored values.
RecomputedIncremental(prev, stats, defaults) ==
    IF stats.total_interactions > 0 /\ prev.exists
    THEN LET scores == [d \in Dims |->
                          (prev.scores[d] + OrDefault(stats.avg[d], defaults[d])) \div 2]
         IN  [exists |-> TRUE, scores |-> scores,
              growth_stage |-> GrowthStage(SumScores(scores)),
              total_interactions |-> stats.total_interactions,
              breakthrough_moments |-> stats.wisdom_count]
    ELSE prev

\* The profile row after the UPDATE guarded by total_interactions > 0; the
\* UPDATE matches no row when the user has no profile.
Recomputed(prev, stats, defaults) ==
    IF stats.total_interactions > 0 /\ prev.exists
    THEN LET scores == [d \in Dims |-> OrDefault(stats.avg[d], defaults[d])]
         IN  [exists |-> TRUE, scores |-> scores,
              growth_stage |-> GrowthStage(SumScores(scores)),
              total_interactions |-> stats.total_interactions,
              breakthrough_moments |-> stats.wisdom_count]
    ELSE prev

\* ---- the gating service, which owns the writes to the tenant tables ----
\* It files the next message in its legacy channel table; ids are serial.
Gating_StoresLegacy(i) ==
    /\ ~legacy[i].present
    /\ \A j \in LegacyIds : j < i => legacy[j].present
    /\ legacy' = [legacy EXCEPT ![i] = LegacyPopulation[i]]
    /\ UNCHANGED <<interaction_memories, profiles, mig, recalc, recalcBy>>

GatingRow(c, v) ==
    [classification |-> c, ethical_scores |-> v, legacy |-> NoLegacy]

\* What it may store: scores of zero, high scores, and no scores at all.
GatingRows ==
    {GatingRow("needs_support", Vec(0, 0, 0, 0, 0, 0, 0)),
     GatingRow("wisdom_moment", Vec(90, 90, 90, 90, 90, 90, 90)),
     GatingRow("neutral_interaction", NoStats.avg)}

\* It stores an interaction memory; ethical_scores defaults to '{}'.
Gating_StoresInteraction(u) ==
    /\ Len(interaction_memories) < MaxMemories
    /\ \E g \in GatingRows :
          interaction_memories' =
              Append(interaction_memories,
                     [user_id |-> u, classification |-> g.classification,
                      ethical_scores |-> g.ethical_scores, legacy |-> g.legacy])
    /\ recalcBy' = [recalcBy EXCEPT ![u] = NoAuthor]
    /\ UNCHANGED <<legacy, profiles, mig, recalc>>

\* ---- migrateLegacyData and migrateToEthicalGrowth ----
\* The next channel's block, or the profile step after mcl_chains.
NextChannel(run) ==
    IF run.table < Len(Tables)
    THEN [run EXCEPT !.phase = "insert", !.table = run.table + 1]
    ELSE [run EXCEPT !.phase = "profile"]

\* Rows have been migrated and no row is waiting to be.
MigrationComplete ==
    /\ \E i \in LegacyIds : legacy[i].present
    /\ \A i \in LegacyIds :
          legacy[i].present => legacy[i].migrated_to_interaction_memory

\* A run starts: new Client, client.connect().  migrateLegacyData takes no
\* user; migrateToEthicalGrowth takes an optional one.
Mig_Start(m) ==
    /\ mig[m].phase = "idle"
    /\ \E impl \in {"legacy", "ethical"}, userId \in Users \cup {"all"},
          connected \in BOOLEAN :
          /\ impl = "legacy" => userId = "all"
          /\ mig' = [mig EXCEPT ![m] =
                [phase |-> IF ~connected THEN "done"
                           ELSE IF impl = "ethical" THEN "init" ELSE "insert",
                 table |-> 1, impl |-> impl, userId |-> userId,
                 stats |-> NoStats, rerun |-> connected /\ MigrationComplete]]
    /\ UNCHANGED <<legacy, interaction_memories, profiles, recalc, recalcBy>>

\* SELECT DISTINCT user_id FROM stm_good [WHERE user_id = userId]
GoodUsers(userId) ==
    {legacy[i].user_id : i \in {j \in LegacyIds :
        /\ legacy[j].present
        /\ legacy[j].table = "good"
        /\ (userId = "all" \/ legacy[j].user_id = userId)}}

\* initializeEthicalProfile: a profile row for each user of stm_good, ON
\* CONFLICT DO NOTHING.  A failure leaves through the outer catch.
Mig_InitProfile(m) ==
    /\ mig[m].phase = "init"
    /\ \E ok \in BOOLEAN :
          IF ok
          THEN /\ profiles' =
                    [u \in Users |->
                        IF ~profiles[u].exists /\ u \in GoodUsers(mig[m].userId)
                        THEN NewProfile(0) ELSE profiles[u]]
               /\ mig' = [mig EXCEPT ![m].phase = "insert"]
          ELSE /\ mig' = [mig EXCEPT ![m].phase = "done"]
               /\ UNCHANGED profiles
    /\ UNCHANGED <<legacy, interaction_memories, recalc, recalcBy>>

\* INSERT INTO interaction_memories ... SELECT ... WHERE the flag is FALSE,
\* one statement.  When it throws the channel's UPDATE is skipped.
Mig_Insert(m) ==
    /\ mig[m].phase = "insert"
    /\ \E ok \in BOOLEAN :
          IF ok
          THEN LET rows == SetToSeq(Unmigrated(Tables[mig[m].table], mig[m].userId))
               IN  /\ interaction_memories' =
                        interaction_memories \o
                          [k \in 1..Len(rows) |-> MigratedRow(mig[m].impl, rows[k])]
                   /\ recalcBy' =
                        [u \in Users |->
                            IF \E k \in 1..Len(rows) : legacy[rows[k]].user_id = u
                            THEN NoAuthor ELSE recalcBy[u]]
                   /\ mig' = [mig EXCEPT ![m].phase = "update"]
          ELSE /\ mig' = [mig EXCEPT ![m] = NextChannel(mig[m])]
               /\ UNCHANGED <<interaction_memories, recalcBy>>
    /\ UNCHANGED <<legacy, profiles, recalc>>

\* UPDATE ... SET migrated_to_interaction_memory = TRUE WHERE it is FALSE, a
\* second statement on the same connection, outside any transaction.
Mig_Update(m) ==
    /\ mig[m].phase = "update"
    /\ \E ok \in BOOLEAN :
          IF ok
          THEN legacy' =
                  [i \in LegacyIds |->
                      IF i \in Unmigrated(Tables[mig[m].table], mig[m].userId)
                      THEN [legacy[i] EXCEPT !.migrated_to_interaction_memory = TRUE]
                      ELSE legacy[i]]
          ELSE UNCHANGED legacy
    /\ mig' = [mig EXCEPT ![m] = NextChannel(mig[m])]
    /\ UNCHANGED <<interaction_memories, profiles, recalc, recalcBy>>

\* The write of a recomputation is marked with its author when the
\* aggregate it read is the aggregate of the user's memories now, and as the
\* second in a row when the profile was already so marked.
Author(by, u, stats) ==
    IF profiles[u].exists /\ stats = Aggregate(interaction_memories, u)
    THEN [by |-> by, twice |-> recalcBy[u].by # "none"]
    ELSE NoAuthor

\* After the four channels.  migrateLegacyData upserts a profile per user of
\* interaction_memories, setting total_interactions (a failure is recorded
\* and the run ends normally).  migrateToEthicalGrowth calls
\* updateEthicalProfile when it was given a user: this step is its SELECT.
Mig_Profile(m) ==
    /\ mig[m].phase = "profile"
    /\ \E ok \in BOOLEAN :
          CASE mig[m].impl = "legacy" /\ ok ->
                  /\ profiles' =
                        [u \in Users |->
                            LET n == Len(UserMemories(interaction_memories, u))
                            IN  IF n = 0 THEN profiles[u]
                                ELSE IF profiles[u].exists
                                THEN [profiles[u] EXCEPT !.total_interactions = n]
                                ELSE NewProfile(n)]
                  /\ recalcBy' =
                        [u \in Users |->
                            IF profiles'[u] = profiles[u] THEN recalcBy[u]
                            ELSE NoAuthor]
                  /\ mig' = [mig EXCEPT ![m].phase = "done"]
            [] mig[m].impl = "ethical" /\ mig[m].userId # "all" /\ ok ->
                  LET stats == Aggregate(interaction_memories, mig[m].userId)
                  IN  /\ mig' = [mig EXCEPT
                            ![m].phase = IF stats.total_interactions > 0
                                         THEN "profileUpdate" ELSE "done",
                            ![m].stats = stats]
                      /\ UNCHANGED <<profiles, recalcBy>>
            [] OTHER ->
                  /\ mig' = [mig EXCEPT ![m].phase = "done"]
                  /\ UNCHANGED <<profiles, recalcBy>>
    /\ UNCHANGED <<legacy, interaction_memories, recalc>>

\* updateEthicalProfile: the UPDATE of ethical_profiles.
Mig_ProfileUpdate(m) ==
    /\ mig[m].phase = "profileUpdate"
    /\ \E ok \in BOOLEAN :
          IF ok
          THEN LET u == mig[m].userId
               IN  /\ profiles' = [profiles EXCEPT ![u] =
                          Recomputed(profiles[u], mig[m].stats, UpdateDefaults)]
                   /\ recalcBy' = [recalcBy EXCEPT ![u] =
                          Author("update", u, mig[m].stats)]
          ELSE UNCHANGED <<profiles, recalcBy>>
    /\ mig' = [mig EXCEPT ![m].phase = "done"]
    /\ UNCHANGED <<legacy, interaction_memories, recalc>>

MigStep(m) ==
    \/ Mig_InitProfile(m)
    \/ Mig_Insert(m)
    \/ Mig_Update(m)
    \/ Mig_Profile(m)
    \/ Mig_ProfileUpdate(m)

\* ---- POST profile/ethical: recalculate the profile ----
\* Up to the aggregate SELECT: 401 without a session, 400 without a project,
\* 500 without a connection string; 'No interactions found' over no rows.
Profile_POST(u) ==
    /\ recalc[u].phase = "idle"
    /\ \E authed \in BOOLEAN, connected \in BOOLEAN :
          LET stats == Aggregate(interaction_memories, u)
          IN  recalc' = [recalc EXCEPT ![u] =
                CASE ~authed -> [IdleRecalc EXCEPT !.resp = "401"]
                  [] authed /\ user[u].northflankProjectId = NoProject ->
                        [IdleRecalc EXCEPT !.resp = "400"]
                  [] authed /\ user[u].northflankProjectId # NoProject
                            /\ ~connected ->
                        [IdleRecalc EXCEPT !.resp = "500"]
                  [] OTHER ->
                        IF stats.total_interactions > 0
                        THEN [phase |-> "update", stats |-> stats, resp |-> "none"]
                        ELSE [IdleRecalc EXCEPT !.resp = "No interactions found"]]
    /\ UNCHANGED <<legacy, interaction_memories, profiles, mig, recalcBy>>

\* The UPDATE of ethical_profiles and the response.
Profile_Update(u) ==
    /\ recalc[u].phase = "update"
    /\ \E ok \in BOOLEAN :
          IF ok
          THEN /\ profiles' = [profiles EXCEPT ![u] =
                      Recomputed(profiles[u], recalc[u].stats, RecalcDefaults)]
               /\ recalcBy' = [recalcBy EXCEPT ![u] =
                      Author("post", u, recalc[u].stats)]
               /\ recalc' = [recalc EXCEPT ![u] =
                      [IdleRecalc EXCEPT !.resp = "Profile recalculated"]]
          ELSE /\ recalc' = [recalc EXCEPT ![u] = [IdleRecalc EXCEPT !.resp = "500"]]
               /\ UNCHANGED <<profiles, recalcBy>>
    /\ UNCHANGED <<legacy, interaction_memories, mig>>

(***************************************************************************)
(* Memories, webhook and chat handlers                                     *)
(*                                                                         *)
(* A handler runs from the request to its response in one step; what it    *)
(* awaits on the way (the session, the connection string, the gating       *)
(* service, the embedding model) answers in one of the listed ways.        *)
(***************************************************************************)
MaxWrites == 2

Anonymous == "anonymous"

Callers == Users \cup {Anonymous}

\* The id of a delete request: that of a row handed out so far, a
\* well-formed UUID of no row, or a string that is not a UUID.
UnknownId == 0

MalformedId == -1

MemoryIds == 1..MaxWrites

\* What the gating service answers, or how the call to it fails.
Routings == {"good", "bad", "review"}

GatingFailures == {"network_error", "timeout", "non_2xx"}

GatingOutcomes == Routings \cup GatingFailures

NoCall ==
    [handler |-> "none", caller |-> Anonymous, status |-> 0, error |-> "none",
     gating |-> "none", routing |-> "none", queried |-> FALSE,
     target |-> UnknownId, owned |-> FALSE, removed |-> {},
     session |-> Anonymous, inserted |-> FALSE]

InitMemory ==
    /\ memory_embeddings = {}
    /\ embeddingSeq = 0
    /\ last = NoCall

\* A response that ends the handler before it has called the gating service.
\* The caller is the user auth() found in the session.
Rejected(handler, caller, status, error) ==
    [NoCall EXCEPT !.handler = handler, !.caller = caller, !.status = status,
                   !.error = error, !.session = caller]

\* A response after the gating call.
Answered(handler, caller, status, error, gating, routing) ==
    [NoCall EXCEPT !.handler = handler, !.caller = caller, !.status = status,
                   !.error = error, !.gating = gating, !.routing = routing,
                   !.session = caller]

DatabaseInitialized(u) ==
    user[u].postgresSchemaInitialized /\ user[u].northflankProjectId # NoProject

\* try { fetch(.../gating/route) ... } catch { routing: 'review', ... }
RoutingWithFallback(g) == IF g \in GatingFailures THEN "review" ELSE g

\* INSERT INTO memory_embeddings (user_id, content, embedding, metadata)
InsertEmbedding(u) ==
    /\ memory_embeddings' =
          memory_embeddings \cup {[id |-> embeddingSeq + 1, user_id |-> u]}
    /\ embeddingSeq' = embeddingSeq + 1

\* Mutant of UpdateCounts: every routing that is not 'bad' is counted as
\* 'good'.
UpdateCountsReviewAsGood(u, routing) ==
    user' = [user EXCEPT ![u] =
        IF routing = "bad"
        THEN [@ EXCEPT !.badChannelCount = @ + 1]
        ELSE [@ EXCEPT !.goodChannelCount = @ + 1]]

\* db.user.update({ data: { goodChannelCount | badChannelCount: increment } })
UpdateCounts(u, routing) ==
    user' = [user EXCEPT ![u] =
        IF routing = "good"
        THEN [@ EXCEPT !.goodChannelCount = @ + 1]
        ELSE IF routing = "bad"
        THEN [@ EXCEPT !.badChannelCount = @ + 1]
        ELSE @]

RECURSIVE ChannelCounts(_)
ChannelCounts(S) ==
    IF S = {} THEN 0
    ELSE LET u == CHOOSE x \in S : TRUE
         IN  user[u].goodChannelCount + user[u].badChannelCount
                + ChannelCounts(S \ {u})

\* A handler that writes is served while the rows inserted and the counter
\* increments made so far are fewer than MaxWrites.
HasRoom == embeddingSeq + ChannelCounts(Users) < MaxWrites

\* The handler answers without having written anything.
Reject(response) ==
    /\ last' = response
    /\ UNCHANGED <<provVars, dataVars, auxVars, memory_embeddings, embeddingSeq>>

\* The handler answers having written what it writes after the gating call.
Serve(u, response, insert, routing) ==
    /\ last' = [response EXCEPT !.inserted = insert]
    /\ IF insert THEN InsertEmbedding(u)
       ELSE UNCHANGED <<memory_embeddings, embeddingSeq>>
    /\ UpdateCounts(u, routing)
    /\ UNCHANGED <<runningMonitors, reqUser, pc, resp, mon, templateRuns>>
    /\ UNCHANGED <<dataVars, auxVars>>

\* memories/route.ts POST.  A missing OLLAMA_EXTERNAL_URL throws after the
\* gating call; a failed embedding is logged and the handler goes on.
Memories_POST(c) ==
    /\ HasRoom
    /\ LET h == "memories/route.ts POST"
       IN  IF c = Anonymous THEN Reject(Rejected(h, c, 401, "Unauthorized"))
           ELSE \/ Reject(Rejected(h, c, 500, "Unexpected token"))
                \/ Reject(Rejected(h, c, 400, "Content is required"))
                \/ IF ~DatabaseInitialized(c)
                   THEN Reject(Rejected(h, c, 400, "Database not initialized"))
                   ELSE \/ Reject(Rejected(h, c, 500, "Database connection failed"))
                        \/ \E g \in GatingOutcomes :
                              LET routing == RoutingWithFallback(g)
                              IN  \/ Reject(Answered(h, c, 500,
                                        "OLLAMA_EXTERNAL_URL not configured",
                                        g, routing))
                                  \/ \E embedded \in BOOLEAN :
                                        Serve(c, Answered(h, c, 200, "none", g, routing),
                                              embedded, routing)

\* The memories route of part_005: the embedding goes through
\* VectorMemory.addMemory, and a missing OLLAMA_EXTERNAL_URL only makes
\* that fail.
Part005_POST(c) ==
    /\ HasRoom
    /\ LET h == "part_005 POST"
       IN  IF c = Anonymous THEN Reject(Rejected(h, c, 401, "Unauthorized"))
           ELSE \/ Reject(Rejected(h, c, 500, "Unexpected token"))
                \/ Reject(Rejected(h, c, 400, "Content is required"))
                \/ IF ~DatabaseInitialized(c)
                   THEN Reject(Rejected(h, c, 400, "Database not initialized"))
                   ELSE \/ Reject(Rejected(h, c, 500, "Database connection failed"))
                        \/ \E g \in GatingOutcomes, embedded \in BOOLEAN :
                              LET routing == RoutingWithFallback(g)
                              IN  Serve(c, Answered(h, c, 200, "none", g, routing),
                                        embedded, routing)

\* A user_id of the payload that names no user.
UnknownUser == "u0"

\* The handler never calls auth(): the request is served without a session,
\* for the user its payload names.
Unsigned(response) == [response EXCEPT !.session = Anonymous]

\* webhooks/n8n-conversation POST: the x-n8n-signature header is read and
\* not verified; the payload names the user (Anonymous stands for a payload
\* without user_id or message).  The embedding is skipped without
\* OLLAMA_EXTERNAL_URL and its failure is logged.
Webhook_POST(c) ==
    /\ HasRoom
    /\ LET h == "n8n-conversation POST"
       IN  \/ Reject(Unsigned(Rejected(h, c, 500, "Internal server error")))
           \/ IF c = Anonymous
              THEN Reject(Unsigned(Rejected(h, c, 400,
                                   "Missing required fields: user_id, message")))
              ELSE IF c = UnknownUser
              THEN Reject(Unsigned(Rejected(h, c, 404, "User not found")))
              ELSE IF ~DatabaseInitialized(c)
              THEN Reject(Unsigned(Rejected(h, c, 400,
                                            "User database not initialized")))
              ELSE \/ Reject(Unsigned(Rejected(h, c, 500,
                                               "Database connection failed")))
                   \/ \E g \in GatingOutcomes, embedded \in BOOLEAN :
                         LET routing == RoutingWithFallback(g)
                         IN  Serve(c, Unsigned(Answered(h, c, 200, "none", g, routing)),
                                   embedded, routing)

\* What a handler without a fallback answers after the gating call g: the
\* steps after it succeed or throw.
AfterGating(h, c, g, routing) ==
    \/ Reject(Answered(h, c, 500, "generation failed", g, routing))
    \/ Reject(Answered(h, c, 200, "none", g, routing))

\* api/ai POST (chat): the gating call stands in the handler's outer try; a
\* rejected fetch or a response that is not ok ends in the outer catch.  A
\* 'bad' routing is answered with the safe counterfactual.
AiChat_POST(c) ==
    LET h == "ai chat POST"
    IN  IF c = Anonymous THEN Reject(Rejected(h, c, 401, "Unauthorized"))
        ELSE \/ Reject(Rejected(h, c, 500, "Unexpected token"))
             \/ IF user[c].northflankProjectId = NoProject
                THEN Reject(Rejected(h, c, 400, "Project not found"))
                ELSE \/ Reject(Rejected(h, c, 500, "Database connection failed"))
                     \/ \E g \in GatingOutcomes :
                           IF g = "non_2xx"
                           THEN Reject(Answered(h, c, 500, "Gating service failed",
                                                g, "none"))
                           ELSE IF g \in GatingFailures
                           THEN Reject(Answered(h, c, 500, "fetch failed", g, "none"))
                           ELSE IF g = "bad"
                           THEN Reject(Answered(h, c, 200, "none", g, g))
                           ELSE AfterGating(h, c, g, g)

\* api/chat POST (ethical chat): a response that is not ok is logged and
\* its body is parsed all the same; a rejected fetch ends in the outer catch.
EthicalChat_POST(c) ==
    LET h == "ethical chat POST"
    IN  IF c = Anonymous THEN Reject(Rejected(h, c, 401, "Unauthorized"))
        ELSE \/ Reject(Rejected(h, c, 500, "Unexpected token"))
             \/ Reject(Rejected(h, c, 400, "Message required"))
             \/ IF user[c].northflankProjectId = NoProject
                THEN Reject(Rejected(h, c, 400, "Project not found"))
                ELSE \/ Reject(Rejected(h, c, 500, "Cannot get database connection"))
                     \/ \E g \in GatingOutcomes :
                           IF g \in {"network_error", "timeout"}
                           THEN Reject(Answered(h, c, 500, "fetch failed", g, "none"))
                           ELSE IF g = "non_2xx"
                           THEN \/ Reject(Answered(h, c, 500, "Unexpected token",
                                                   g, "none"))
                                \/ AfterGating(h, c, g, "undefined")
                           ELSE AfterGating(h, c, g, g)

\* DELETE FROM memory_embeddings WHERE id = $1 AND user_id = $2 RETURNING id
OwnRows(id, u) == {row \in memory_embeddings : row.id = id /\ row.user_id = u}

DeleteIds == MemoryIds \cup {UnknownId, MalformedId}

\* The request reached the DELETE statement with this id.
Queried(h, c, status, error, id) ==
    [Rejected(h, c, status, error) EXCEPT
        !.queried = TRUE, !.target = id, !.owned = OwnRows(id, c) # {},
        !.removed = IF status = 200 THEN OwnRows(id, c) ELSE {}]

Deleted(response) ==
    /\ last' = response
    /\ memory_embeddings' = memory_embeddings \ response.removed
    /\ UNCHANGED <<provVars, dataVars, auxVars, embeddingSeq>>

\* memories/route.ts DELETE: rowCount 0 is answered 404; a string that is
\* not a UUID makes the query throw.
Memories_DELETE(c) ==
    LET h == "memories/route.ts DELETE"
    IN  IF c = Anonymous THEN Reject(Rejected(h, c, 401, "Unauthorized"))
        ELSE IF ~DatabaseInitialized(c)
        THEN Reject(Rejected(h, c, 400, "Database not initialized"))
        ELSE \/ Reject(Rejected(h, c, 400, "Memory ID required"))
             \/ Reject(Rejected(h, c, 500, "Database connection failed"))
             \/ \E id \in DeleteIds :
                   IF id = MalformedId
                   THEN Deleted(Queried(h, c, 500,
                                        "invalid input syntax for type uuid", id))
                   ELSE IF OwnRows(id, c) = {}
                   THEN Deleted(Queried(h, c, 404,
                                        "Memory not found or access denied", id))
                   ELSE Deleted(Queried(h, c, 200, "none", id))

\* The DELETE of part_005: VectorMemory.deleteMemory(memoryId, user.id)
\* throws on rowCount 0, and the handler's catch answers 500 with the message.
Part005_DELETE(c) ==
    LET h == "part_005 DELETE"
    IN  IF c = Anonymous THEN Reject(Rejected(h, c, 401, "Unauthorized"))
        ELSE IF ~DatabaseInitialized(c)
        THEN Reject(Rejected(h, c, 400, "Database not initialized"))
        ELSE \/ Reject(Rejected(h, c, 400, "Memory ID required"))
             \/ Reject(Rejected(h, c, 500, "Database connection failed"))
             \/ \E id \in DeleteIds :
                   IF id = MalformedId
                   THEN Deleted(Queried(h, c, 500,
                                        "invalid input syntax for type uuid", id))
                   ELSE IF OwnRows(id, c) = {}
                   THEN Deleted(Queried(h, c, 500,
                                        "Memory not found or access denied", id))
                   ELSE Deleted(Queried(h, c, 200, "none", id))

NextMemory ==
    \/ \E c \in Callers : Memories_POST(c)
    \/ \E c \in Callers : Part005_POST(c)
    \/ \E c \in Callers \cup {UnknownUser} : Webhook_POST(c)
    \/ \E c \in Callers : AiChat_POST(c)
    \/ \E c \in Callers : EthicalChat_POST(c)
    \/ \E c \in Callers : Memories_DELETE(c)
    \/ \E c \in Callers : Part005_DELETE(c)

(***************************************************************************)
(* The growth stage, as each recomputation derives it from an aggregate    *)
(***************************************************************************)
\* Averages are taken up to MaxScore hundredths.
MaxScore == 100

DimOrder ==
    <<"self_awareness", "emotional_regulation", "compassion", "integrity",
      "growth_mindset", "wisdom", "transcendence">>

NoStage == [in |-> NoStats, post |-> 0, update |-> 0]

\* The aggregate row whose averages are base, the first extra of them one
\* hundredth more, and NULL for the dimension no memory has a score of.
StatsRow(base, extra, nullDim) ==
    [avg |-> [d \in Dims |->
                IF d = nullDim THEN NullScore
                ELSE IF \E k \in 1..extra : DimOrder[k] = d THEN base + 1
                ELSE base],
     total_interactions |-> 1, wisdom_count |-> 0]

InitStage ==
    \E base \in 0..MaxScore, extra \in 0..Len(DimOrder),
       nullDim \in {"none", "wisdom", "transcendence"} :
          stage = [NoStage EXCEPT !.in = StatsRow(base, extra, nullDim)]

\* POST profile/ethical: growthStage as bound to $8 of its UPDATE.
Stage_Recalc ==
    /\ stage.post = 0
    /\ stage' = [stage EXCEPT !.post =
            Recomputed(NewProfile(0), stage.in, RecalcDefaults).growth_stage]
    /\ UNCHANGED <<provVars, dataVars, memVars, key, setup, trainVars>>

\* updateEthicalProfile: growthStage as bound to $8 of its UPDATE.
Stage_Update ==
    /\ stage.update = 0
    /\ stage' = [stage EXCEPT !.update =
            Recomputed(NewProfile(0), stage.in, UpdateDefaults).growth_stage]
    /\ UNCHANGED <<provVars, dataVars, memVars, key, setup, trainVars>>

NextStage == Stage_Recalc \/ Stage_Update

StageIdle == stage = NoStage

(***************************************************************************)
(* createN8nApiKey: the retry loop                                         *)
(***************************************************************************)
maxRetries == 5

\* What one pass of the loop body can come to: /healthz not ok, a key in the
\* answer of /rest/api-key, an ok answer without a key, an answer that is
\* not ok, or a rejected fetch.
AttemptOutcomes == {"unhealthy", "created", "no key", "rejected", "threw"}

KeyStart ==
    [pc |-> "start", attempt |-> 0, outcomes |-> <<>>, waited |-> <<>>,
     critical |-> FALSE, result |-> "none"]

\* createN8nApiKey has not been called.
KeyIdle == key = [KeyStart EXCEPT !.pc = "idle"]

\* Seconds slept after attempt k came to outcome: 15000 * attempt after a
\* failed health check, and after any other failure unless it was the last.
WaitAfter(k, outcome) ==
    IF outcome = "unhealthy" \/ k < maxRetries THEN 15 * k ELSE 0

\* The 30 s wait and the encoding of the basic credentials; btoa throws for
\* an e-mail with a character above U+00FF and the outer catch returns the
\* pre-generated key.
Key_Begin ==
    /\ key.pc = "start"
    /\ \E encodable \in BOOLEAN :
          key' = IF encodable
                 THEN [key EXCEPT !.pc = "loop", !.attempt = 1]
                 ELSE [key EXCEPT !.pc = "returned", !.critical = TRUE,
                                  !.result = createN8nApiKey(FALSE)]
    /\ UNCHANGED <<provVars, dataVars, memVars, stage, setup, trainVars>>

\* Mutant of Key_Attempt: the wait doubles with every attempt.
Key_AttemptDoubling ==
    /\ key.pc = "loop"
    /\ \E outcome \in AttemptOutcomes :
          key' = IF outcome = "created"
                 THEN [key EXCEPT !.pc = "returned",
                                  !.outcomes = Append(@, outcome),
                                  !.result = createN8nApiKey(TRUE)]
                 ELSE LET next ==
                         [key EXCEPT !.outcomes = Append(@, outcome),
                                     !.waited = Append(@, 15 * (2 ^ (key.attempt - 1))),
                                     !.attempt = @ + 1]
                      IN  IF next.attempt <= maxRetries THEN next
                          ELSE [next EXCEPT !.pc = "returned",
                                            !.result = createN8nApiKey(FALSE)]
    /\ UNCHANGED <<provVars, dataVars, memVars, stage, setup, trainVars>>

\* One pass of the loop body with the wait that follows it; after the last
\* pass the function returns the pre-generated key.
Key_Attempt ==
    /\ key.pc = "loop"
    /\ \E outcome \in AttemptOutcomes :
          key' = IF outcome = "created"
                 THEN [key EXCEPT !.pc = "returned",
                                  !.outcomes = Append(@, outcome),
                                  !.result = createN8nApiKey(TRUE)]
                 ELSE LET next ==
                         [key EXCEPT !.outcomes = Append(@, outcome),
                                     !.waited = Append(@, WaitAfter(key.attempt, outcome)),
                                     !.attempt = @ + 1]
                      IN  IF next.attempt <= maxRetries THEN next
                          ELSE [next EXCEPT !.pc = "returned",
                                            !.result = createN8nApiKey(FALSE)]
    /\ UNCHANGED <<provVars, dataVars, memVars, stage, setup, trainVars>>

NextApiKey == Key_Begin \/ Key_Attempt

(***************************************************************************)
(* memories/setup POST: schema, then the Postgres credential in n8n        *)
(***************************************************************************)
SetupRequests == {"s1", "s2"}

NoSetup == [caller |-> Anonymous, pc |-> "start", resp |-> "none"]

SetupIdle == setup = [s \in SetupRequests |-> NoSetup]

SchemaErrors ==
    {"Schema error: Schema initialization returned false",
     "Schema error: connect ECONNREFUSED"}

CredentialErrors ==
    {"Credential error: No credential ID returned from N8N",
     "Credential error: Missing Postgres config"}

SetupAnswer(s, caller, response) ==
    setup' = [setup EXCEPT ![s] = [caller |-> caller, pc |-> "done", resp |-> response]]

\* auth(), the user row, the already-initialized check and the
\* prerequisites.
Setup_Begin(s) ==
    /\ setup[s].pc = "start"
    /\ \E caller \in Callers :
          IF caller = Anonymous THEN SetupAnswer(s, caller, "401")
          ELSE IF /\ user[caller].postgresSchemaInitialized
                  /\ user[caller].n8nPostgresCredentialId # "none"
               THEN SetupAnswer(s, caller, "already initialized")
          ELSE IF user[caller].northflankProjectId = NoProject
               THEN SetupAnswer(s, caller, "400 no project")
          ELSE IF user[caller].northflankProjectStatus # "ready"
               THEN SetupAnswer(s, caller, "400 not ready")
          ELSE IF ~user[caller].n8nUrl \/ ~user[caller].n8nEncryptionKey
               THEN SetupAnswer(s, caller, "400 not configured")
          ELSE setup' = [setup EXCEPT ![s] = [caller |-> caller, pc |-> "connection",
                                              resp |-> "none"]]
    /\ UNCHANGED <<provVars, dataVars, memVars, stage, key, trainVars>>

\* Step 1: getPostgresConnection.
Setup_Connection(s) ==
    /\ setup[s].pc = "connection"
    /\ \E haveConnection \in BOOLEAN :
          IF haveConnection
          THEN setup' = [setup EXCEPT ![s].pc = "schema"]
          ELSE SetupAnswer(s, setup[s].caller, "500 connection")
    /\ UNCHANGED <<provVars, dataVars, memVars, stage, key, trainVars>>

\* Step 2: initializeEthicalGrowthSchema; a failure is recorded.
Setup_Schema(s) ==
    /\ setup[s].pc = "schema"
    /\ \/ /\ setup' = [setup EXCEPT ![s].pc = "credential"]
          /\ UNCHANGED user
       \/ \E message \in SchemaErrors :
            /\ user' = [user EXCEPT ![setup[s].caller].postgresSetupError = message]
            /\ SetupAnswer(s, setup[s].caller, "500 schema")
    /\ UNCHANGED <<runningMonitors, reqUser, pc, resp, mon, templateRuns>>
    /\ UNCHANGED <<dataVars, memVars, stage, key, trainVars>>

\* Mutant of Setup_Credential: the catch records the error only.
Setup_CredentialErrorOnly(s) ==
    /\ setup[s].pc = "credential"
    /\ \/ /\ user' = [user EXCEPT ![setup[s].caller] =
                         [@ EXCEPT !.postgresSchemaInitialized = TRUE,
                                   !.n8nPostgresCredentialId = "credential",
                                   !.postgresSetupError = NoError]]
          /\ SetupAnswer(s, setup[s].caller, "200")
       \/ \E message \in CredentialErrors :
            /\ user' = [user EXCEPT ![setup[s].caller].postgresSetupError = message]
            /\ SetupAnswer(s, setup[s].caller, "500 credential")
    /\ UNCHANGED <<runningMonitors, reqUser, pc, resp, mon, templateRuns>>
    /\ UNCHANGED <<dataVars, memVars, stage, key, trainVars>>

\* Step 3: createPostgresCredentialInN8n and the update that follows it.
Setup_Credential(s) ==
    /\ setup[s].pc = "credential"
    /\ \/ /\ user' = [user EXCEPT ![setup[s].caller] =
                         [@ EXCEPT !.postgresSchemaInitialized = TRUE,
                                   !.n8nPostgresCredentialId = "credential",
                                   !.postgresSetupError = NoError]]
          /\ SetupAnswer(s, setup[s].caller, "200")
       \/ \E message \in CredentialErrors :
            /\ user' = [user EXCEPT ![setup[s].caller] =
                           [@ EXCEPT !.postgresSchemaInitialized = TRUE,
                                     !.postgresSetupError = message]]
            /\ SetupAnswer(s, setup[s].caller, "500 credential")
    /\ UNCHANGED <<runningMonitors, reqUser, pc, resp, mon, templateRuns>>
    /\ UNCHANGED <<dataVars, memVars, stage, key, trainVars>>

NextSetup ==
    \E s \in SetupRequests :
        Setup_Begin(s) \/ Setup_Connection(s) \/ Setup_Schema(s) \/ Setup_Credential(s)

(***************************************************************************)
(* lora/train and lora/sync-counts: training requests and their monitor    *)
(***************************************************************************)
TrainRequests == {"t1", "t2"}

\* Validate minimum data.
MinSamples == 10
MinGood == 5

\* Polls of the training monitor, and consecutive failed polls it accepts.
maxAttempts == 3
maxConsecutiveErrors == 2

NoTrain ==
    [handler |-> "none", caller |-> Anonymous, pc |-> "start", resp |-> "none",
     wrote |-> FALSE]

IdleTrainMonitor ==
    [pc |-> "idle", attempts |-> 0, consecutiveErrors |-> 0, observed |-> "none",
     exit |-> "none"]

\* The counters of a tenant's row: no memory yet, enough in total but too
\* few good ones, and enough of both.
CounterPopulations ==
    {[good |-> 0, bad |-> 0, mcl |-> 0], [good |-> 4, bad |-> 6, mcl |-> 0],
     [good |-> 5, bad |-> 3, mcl |-> 2]}

\* Rows of interaction_memories per tenant: approved for training, pending
\* and approvable, pending with classification needs_support.
SamplePopulations ==
    {[approved |-> 7, pending |-> 2, support |-> 0],
     [approved |-> 10, pending |-> 0, support |-> 0],
     [approved |-> 10, pending |-> 1, support |-> 1]}

TrainIdle ==
    /\ train = [t \in TrainRequests |-> NoTrain]
    /\ tmon = [t \in TrainRequests |-> IdleTrainMonitor]
    /\ training_jobs = [t \in TrainRequests |-> "none"]
    /\ samples = [u \in Users |-> CHOOSE p \in SamplePopulations : p.pending = 0]
    /\ pendingApproval = [u \in Users |-> TRUE]

InitTrain ==
    /\ train = [t \in TrainRequests |-> NoTrain]
    /\ tmon = [t \in TrainRequests |-> IdleTrainMonitor]
    /\ training_jobs = [t \in TrainRequests |-> "none"]
    /\ \E p \in SamplePopulations : samples = [u \in Users |-> p]
    /\ pendingApproval = [u \in Users |-> TRUE]

\* What a training action leaves alone besides the user rows and its own
\* variables.
besideTraining ==
    <<runningMonitors, reqUser, pc, resp, mon, templateRuns, dataVars, memVars,
      stage, key, setup>>

TrainAnswer(t, response) ==
    train' = [train EXCEPT ![t].pc = "done", ![t].resp = response]

TrainAnswerAs(t, h, caller, response) ==
    train' = [train EXCEPT ![t] = [handler |-> h, caller |-> caller, pc |-> "done",
                                   resp |-> response, wrote |-> FALSE]]

TrainGoOn(t, position, written) ==
    train' = [train EXCEPT ![t].pc = position, ![t].wrote = @ \/ written]

\* What both start handlers check on the user row before anything else.
TrainRowCheck(caller) ==
    IF caller = Anonymous THEN "401 Unauthorized"
    ELSE IF user[caller].northflankProjectId = NoProject THEN "400 Project not found"
    ELSE IF ~user[caller].postgresSchemaInitialized THEN "400 Database not initialized"
    ELSE IF user[caller].loraTrainingStatus = "training"
         THEN "409 Training already in progress"
    ELSE "ok"

\* Mutant of DataCheck: only the total is looked at.
DataCheckTotalOnly(caller) ==
    LET totalData == user[caller].goodChannelCount + user[caller].badChannelCount
                        + user[caller].mclChainCount
    IN  IF totalData < MinSamples THEN "400 Not enough training data" ELSE "ok"

\* lora/train POST: the thresholds on the counters of the user row.
DataCheck(caller) ==
    LET totalData == user[caller].goodChannelCount + user[caller].badChannelCount
                        + user[caller].mclChainCount
    IN  IF totalData < MinSamples THEN "400 Not enough training data"
        ELSE IF user[caller].goodChannelCount < MinGood
             THEN "400 Not enough good channel data"
        ELSE "ok"

\* lora/train POST, lines 14-64: auth(), the user row and the validation.
Train_Begin(t) ==
    /\ train[t].pc = "start"
    /\ \E caller \in Callers :
          LET h == "train POST"
              row == TrainRowCheck(caller)
              answer == IF row # "ok" THEN row ELSE DataCheck(caller)
          IN  IF answer # "ok" THEN TrainAnswerAs(t, h, caller, answer)
              ELSE train' = [train EXCEPT ![t] = [handler |-> h, caller |-> caller,
                                                  pc |-> "connection", resp |-> "none",
                                                  wrote |-> FALSE]]
    /\ UNCHANGED <<user, tmon, training_jobs, samples, pendingApproval, besideTraining>>

\* The ethical-growth version, lines 192-221: auth() and the user row.
TrainEthical_Begin(t) ==
    /\ train[t].pc = "start"
    /\ \E caller \in Callers :
          LET h == "train POST (ethical growth)"
              row == TrainRowCheck(caller)
          IN  IF row # "ok" THEN TrainAnswerAs(t, h, caller, row)
              ELSE train' = [train EXCEPT ![t] = [handler |-> h, caller |-> caller,
                                                  pc |-> "connection", resp |-> "none",
                                                  wrote |-> FALSE]]
    /\ UNCHANGED <<user, tmon, training_jobs, samples, pendingApproval, besideTraining>>

\* getPostgresConnectionString; without one the handler throws and answers
\* 500.
Train_Connection(t) ==
    /\ train[t].pc = "connection"
    /\ \E haveConnection \in BOOLEAN :
          IF ~haveConnection THEN TrainAnswer(t, "500 Cannot get database connection")
          ELSE TrainGoOn(t, IF train[t].handler = "train POST" THEN "approve" ELSE "stats",
                         FALSE)
    /\ UNCHANGED <<user, tmon, training_jobs, samples, pendingApproval, besideTraining>>

\* lora/train POST: autoApproveData on stm_good, stm_bad and mcl_chains.
Train_AutoApprove(t) ==
    /\ train[t].pc = "approve"
    /\ train[t].handler = "train POST"
    /\ LET u == train[t].caller
       IN  \/ /\ TrainAnswer(t, "500 connect ECONNREFUSED")
              /\ UNCHANGED pendingApproval
           \/ /\ pendingApproval' = [pendingApproval EXCEPT ![u] = FALSE]
              /\ TrainGoOn(t, "setTraining", pendingApproval[u])
    /\ UNCHANGED <<user, tmon, training_jobs, samples, besideTraining>>

\* Mutant of TrainEthical_Stats: the pending rows are approved before the
\* threshold is looked at.
TrainEthical_StatsAfterApproval(t) ==
    /\ train[t].pc = "stats"
    /\ LET u == train[t].caller
           approved == [samples[u] EXCEPT !.approved = @ + samples[u].pending,
                                          !.pending = 0]
       IN  /\ samples' = [samples EXCEPT ![u] = approved]
           /\ IF approved.approved < MinSamples
              THEN train' = [train EXCEPT
                               ![t].pc = "done",
                               ![t].resp = "400 Not enough approved training data",
                               ![t].wrote = @ \/ samples[u].pending > 0]
              ELSE TrainGoOn(t, "setTraining", samples[u].pending > 0)
    /\ UNCHANGED <<user, tmon, training_jobs, pendingApproval, besideTraining>>

\* The ethical-growth version, lines 231-242: getTrainingStats and the
\* threshold on the approved rows.
TrainEthical_Stats(t) ==
    /\ train[t].pc = "stats"
    /\ LET s == samples[train[t].caller]
       IN  \/ TrainAnswer(t, "500 connect ECONNREFUSED")
           \/ IF s.approved < MinSamples
              THEN TrainAnswer(t, "400 Not enough approved training data")
              ELSE TrainGoOn(t, IF s.pending + s.support > 0 THEN "approve"
                                ELSE "setTraining", FALSE)
    /\ UNCHANGED <<user, tmon, training_jobs, pendingApproval, besideTraining>>
    /\ UNCHANGED samples

\* The ethical-growth version, lines 245-257: autoApproveData on
\* interaction_memories and the second count.
TrainEthical_AutoApprove(t) ==
    /\ train[t].pc = "approve"
    /\ train[t].handler = "train POST (ethical growth)"
    /\ LET u == train[t].caller
           approved == [samples[u] EXCEPT !.approved = @ + samples[u].pending,
                                          !.pending = 0]
       IN  \/ /\ TrainAnswer(t, "500 connect ECONNREFUSED")
              /\ UNCHANGED samples
           \/ /\ samples' = [samples EXCEPT ![u] = approved]
              /\ \/ train' = [train EXCEPT ![t].pc = "done",
                                           ![t].resp = "500 connect ECONNREFUSED",
                                           ![t].wrote = @ \/ samples[u].pending > 0]
                 \/ IF approved.approved < MinSamples
                    THEN train' = [train EXCEPT
                                     ![t].pc = "done",
                                     ![t].resp = "400 Still not enough data after auto-approval",
                                     ![t].wrote = @ \/ samples[u].pending > 0]
                    ELSE TrainGoOn(t, "setTraining", samples[u].pending > 0)
    /\ UNCHANGED <<user, tmon, training_jobs, pendingApproval, besideTraining>>

\* Update status to training (both versions).
Train_SetTraining(t) ==
    /\ train[t].pc = "setTraining"
    /\ user' = UpdateUser(train[t].caller,
                          [loraTrainingStatus |-> "training", loraTrainingError |-> NoError])
    /\ TrainGoOn(t, "logJob", TRUE)
    /\ UNCHANGED <<tmon, training_jobs, samples, pendingApproval, besideTraining>>

\* logTrainingJob: the INSERT of a 'running' row (both versions); the
\* channel-count version looks the job up next, the other triggers it.
Train_LogJob(t) ==
    /\ train[t].pc = "logJob"
    /\ \/ /\ TrainAnswer(t, "500 connect ECONNREFUSED")
          /\ UNCHANGED training_jobs
       \/ /\ training_jobs' = [training_jobs EXCEPT ![t] = "running"]
          /\ TrainGoOn(t, IF train[t].handler = "train POST" THEN "jobCheck" ELSE "trigger",
                       TRUE)
    /\ UNCHANGED <<user, tmon, samples, pendingApproval, besideTraining>>

\* lora/train POST, lines 133-150: the job must exist.
Train_JobCheck(t) ==
    /\ train[t].pc = "jobCheck"
    /\ \/ TrainAnswer(t, "500 Job not found in project")
       \/ TrainGoOn(t, "trigger", FALSE)
    /\ UNCHANGED <<user, tmon, training_jobs, samples, pendingApproval, besideTraining>>

\* lora/train POST, lines 155-225: the run is triggered; a refusal is
\* recorded on the user row and on the training_jobs row; with a run id the
\* monitor is started.
Train_Trigger(t) ==
    /\ train[t].pc = "trigger"
    /\ train[t].handler = "train POST"
    /\ \/ /\ TrainAnswer(t, "500 fetch failed")
          /\ UNCHANGED <<user, training_jobs, tmon>>
       \/ /\ user' = UpdateUser(train[t].caller,
                        [loraTrainingStatus |-> "failed",
                         loraTrainingError |-> "Failed to start training: message"])
          /\ \/ training_jobs' = [training_jobs EXCEPT ![t] = "failed"]
             \/ UNCHANGED training_jobs
          /\ TrainAnswer(t, "500 Northflank API error")
          /\ UNCHANGED tmon
       \/ /\ TrainAnswer(t, "500 No run ID returned from Northflank")
          /\ UNCHANGED <<user, training_jobs, tmon>>
       \/ /\ tmon' = [tmon EXCEPT ![t] = [IdleTrainMonitor EXCEPT !.pc = "loop"]]
          /\ TrainAnswer(t, "200 Training started successfully")
          /\ UNCHANGED <<user, training_jobs>>
    /\ UNCHANGED <<samples, pendingApproval, besideTraining>>

\* The ethical-growth version, lines 288-350: a refusal is recorded on the
\* user row only, and startBackgroundMonitoring (lines 611-622) has an
\* empty body.
TrainEthical_Trigger(t) ==
    /\ train[t].pc = "trigger"
    /\ train[t].handler = "train POST (ethical growth)"
    /\ \/ /\ TrainAnswer(t, "500 fetch failed")
          /\ UNCHANGED user
       \/ /\ user' = UpdateUser(train[t].caller,
                        [loraTrainingStatus |-> "failed",
                         loraTrainingError |-> "Failed to start training: message"])
          /\ TrainAnswer(t, "500 Northflank API error")
       \/ /\ TrainAnswer(t, "200 Ethical growth training started successfully")
          /\ UNCHANGED user
    /\ UNCHANGED <<tmon, training_jobs, samples, pendingApproval, besideTraining>>

\* DELETE (both versions): the status is checked and set to cancelled.
Train_DELETE(t) ==
    /\ train[t].pc = "start"
    /\ \E caller \in Callers :
          LET h == "train DELETE"
          IN  IF caller = Anonymous
              THEN TrainAnswerAs(t, h, caller, "401 Unauthorized") /\ UNCHANGED user
              ELSE IF user[caller].loraTrainingStatus # "training"
              THEN TrainAnswerAs(t, h, caller, "400 No training in progress")
                   /\ UNCHANGED user
              ELSE IF user[caller].northflankProjectId = NoProject
              THEN TrainAnswerAs(t, h, caller, "400 Project not found") /\ UNCHANGED user
              ELSE /\ user' = UpdateUser(caller,
                                 [loraTrainingStatus |-> "cancelled",
                                  loraTrainingError |-> "Cancelled by user"])
                   /\ train' = [train EXCEPT ![t] =
                                  [handler |-> h, caller |-> caller, pc |-> "done",
                                   resp |-> "200 Training cancelled", wrote |-> TRUE]]
    /\ UNCHANGED <<tmon, training_jobs, samples, pendingApproval, besideTraining>>

TrainStep(t) ==
    \/ Train_Connection(t)
    \/ Train_AutoApprove(t)
    \/ TrainEthical_Stats(t)
    \/ TrainEthical_AutoApprove(t)
    \/ Train_SetTraining(t)
    \/ Train_LogJob(t)
    \/ Train_JobCheck(t)
    \/ Train_Trigger(t)
    \/ TrainEthical_Trigger(t)

\* ---- startBackgroundMonitoring (lora/train) ----
TerminalStatuses == {"COMPLETED", "FAILED", "CANCELLED"}

Recorded(status) ==
    CASE status = "COMPLETED" -> "completed"
      [] status = "FAILED" -> "failed"
      [] status = "CANCELLED" -> "cancelled"

RecordedError(status) ==
    CASE status = "COMPLETED" -> NoError
      [] status = "FAILED" -> "Training failed - check logs"
      [] status = "CANCELLED" -> "Cancelled by user"

\* The catch of the loop body: one more consecutive error, and at the
\* ceiling the failure is recorded and the loop left.
TrainMonitor_Catch(t, m) ==
    LET errors == m.consecutiveErrors + 1
    IN  IF errors >= maxConsecutiveErrors
        THEN /\ user' = UpdateUser(train[t].caller,
                           [loraTrainingStatus |-> "failed",
                            loraTrainingError |-> "Monitoring failed: message"])
             /\ tmon' = [tmon EXCEPT ![t] = [m EXCEPT !.consecutiveErrors = errors,
                                                      !.pc = "after", !.exit = "gave up"]]
        ELSE /\ UNCHANGED user
             /\ tmon' = [tmon EXCEPT ![t] = [m EXCEPT !.consecutiveErrors = errors,
                                                      !.pc = "loop"]]

\* One pass of the loop up to the update of the user row: the 30 s sleep,
\* attempts++, the status of the run, and for a terminal status the logs
\* (COMPLETED) and the update.
TrainMonitor_Poll(t) ==
    /\ tmon[t].pc = "loop"
    /\ tmon[t].attempts < maxAttempts
    /\ LET polled == [tmon[t] EXCEPT !.attempts = @ + 1]
           answered == [polled EXCEPT !.consecutiveErrors = 0]
       IN  \/ TrainMonitor_Catch(t, polled)
           \/ /\ tmon' = [tmon EXCEPT ![t] = answered]
              /\ UNCHANGED user
           \/ \* COMPLETED, and the fetch of the logs is rejected
              TrainMonitor_Catch(t, [answered EXCEPT !.observed = "COMPLETED"])
           \/ \E status \in TerminalStatuses :
                /\ user' = UpdateUser(train[t].caller,
                              [loraTrainingStatus |-> Recorded(status),
                               loraTrainingError |-> RecordedError(status)])
                /\ tmon' = [tmon EXCEPT ![t] = [answered EXCEPT !.pc = "jobUpdate",
                                                                !.observed = status]]
    /\ UNCHANGED <<train, training_jobs, samples, pendingApproval, besideTraining>>

\* updateTrainingJobStatus after the update of the user row, then break; if
\* it throws the catch runs and the loop goes on.
TrainMonitor_JobUpdate(t) ==
    /\ tmon[t].pc = "jobUpdate"
    /\ \/ /\ training_jobs' = [training_jobs EXCEPT ![t] = Recorded(tmon[t].observed)]
          /\ tmon' = [tmon EXCEPT ![t].pc = "after", ![t].exit = "terminal"]
          /\ UNCHANGED user
       \/ /\ TrainMonitor_Catch(t, tmon[t])
          /\ UNCHANGED training_jobs
    /\ UNCHANGED <<train, samples, pendingApproval, besideTraining>>

\* Mutant of TrainMonitor_Exit: nothing is recorded after the loop.
TrainMonitor_ExitSilently(t) ==
    /\ \/ tmon[t].pc = "after"
       \/ tmon[t].pc = "loop" /\ tmon[t].attempts >= maxAttempts
    /\ tmon' = [tmon EXCEPT ![t].pc = "done",
                            ![t].exit = IF tmon[t].pc = "loop" THEN "exhausted" ELSE @]
    /\ UNCHANGED <<user, train, training_jobs, samples, pendingApproval, besideTraining>>

\* After the loop: if (attempts >= maxAttempts) the timeout is recorded.
TrainMonitor_Exit(t) ==
    /\ \/ tmon[t].pc = "after"
       \/ tmon[t].pc = "loop" /\ tmon[t].attempts >= maxAttempts
    /\ IF tmon[t].attempts >= maxAttempts
       THEN user' = UpdateUser(train[t].caller,
                       [loraTrainingStatus |-> "failed",
                        loraTrainingError |-> "Training timeout - may still be running"])
       ELSE UNCHANGED user
    /\ tmon' = [tmon EXCEPT ![t].pc = "done",
                            ![t].exit = IF tmon[t].pc = "loop" THEN "exhausted" ELSE @]
    /\ UNCHANGED <<train, training_jobs, samples, pendingApproval, besideTraining>>

TrainMonitorStep(t) ==
    TrainMonitor_Poll(t) \/ TrainMonitor_JobUpdate(t) \/ TrainMonitor_Exit(t)

\* The first request to memories POST.
Memories_FirstPOST(c) == last = NoCall /\ Memories_POST(c)

\* Training requests beside one memories POST.
NextTraining ==
    \/ \E t \in TrainRequests :
          Train_Begin(t) \/ TrainEthical_Begin(t) \/ Train_DELETE(t) \/ TrainStep(t)
    \/ \E c \in Callers : Memories_FirstPOST(c)

InitAux == StageIdle /\ KeyIdle /\ SetupIdle /\ TrainIdle

(***************************************************************************)
(* Specifications                                                          *)
(***************************************************************************)
\* A tenant whose workspace is provisioned and ready.
ReadyUserRow ==
    [InitialUserRow EXCEPT !.northflankProjectId = TemplateProject("r1"),
                           !.northflankProjectStatus = "ready",
                           !.n8nUrl = TRUE]

\* No request to provision-northflank has been made.
ProvisionAtRest ==
    /\ runningMonitors = {}
    /\ user = [u \in Users |-> IF u = "u1" THEN ReadyUserRow ELSE InitialUserRow]
    /\ reqUser = [r \in Requests |-> "u1"]
    /\ pc = [r \in Requests |-> "start"]
    /\ resp = [r \in Requests |-> "none"]
    /\ mon = [r \in Requests |-> IdleMonitor]
    /\ templateRuns = {}

\* A tenant whose database schema has been set up as well.
SetUpUserRow ==
    [ReadyUserRow EXCEPT !.postgresSchemaInitialized = TRUE,
                         !.n8nPostgresCredentialId = "credential"]

\* One tenant set up, the other at any of the three stages, and no
\* provisioning request.
TenantsAtRest ==
    /\ runningMonitors = {}
    /\ \E row \in {InitialUserRow, ReadyUserRow, SetUpUserRow} :
          user = [u \in Users |-> IF u = "u1" THEN SetUpUserRow ELSE row]
    /\ reqUser = [r \in Requests |-> "u1"]
    /\ pc = [r \in Requests |-> "start"]
    /\ resp = [r \in Requests |-> "none"]
    /\ mon = [r \in Requests |-> IdleMonitor]
    /\ templateRuns = {}

Init == InitProvision /\ InitData /\ InitMemory /\ InitAux

SpecProvision == Init /\ [][NextProvision]_vars

\* The event loop runs every continuation whose awaited call has settled,
\* and every external call settles: handler and monitor steps are weakly
\* fair.  The arrival of a request is not.
SpecProvisionFair ==
    /\ SpecProvision
    /\ \A r \in Requests :
          /\ WF_vars(HandlerStep(r) /\ UNCHANGED <<dataVars, memVars, auxVars>>)
          /\ WF_vars(MonitorStep(r) /\ UNCHANGED <<dataVars, memVars, auxVars>>)

InitDatabase == ProvisionAtRest /\ InitData /\ InitMemory /\ InitAux

NextMigration ==
    /\ \/ \E i \in LegacyIds : Gating_StoresLegacy(i)
       \/ \E m \in Runs : Mig_Start(m) \/ MigStep(m)
    /\ UNCHANGED <<provVars, memVars, auxVars>>

\* Two migrations beside the gating service's writes to the legacy tables.
SpecMigration == InitDatabase /\ [][NextMigration]_vars

NextProfile ==
    /\ \/ \E u \in Users : Gating_StoresInteraction(u)
       \/ \E u \in Users : Profile_POST(u) \/ Profile_Update(u)
       \/ Mig_Start("m1") \/ MigStep("m1")
    /\ UNCHANGED <<provVars, memVars, auxVars>>

\* Recomputation beside the gating service's writes and one migration.
SpecProfile == InitDatabase /\ [][NextProfile]_vars

\* Both recomputations applied to one aggregate.
InitStages ==
    /\ ProvisionAtRest /\ InitData /\ InitMemory /\ InitStage
    /\ KeyIdle /\ SetupIdle /\ TrainIdle

SpecStage == InitStages /\ [][NextStage]_vars

\* One call of createN8nApiKey.
InitApiKey ==
    /\ InitProvision /\ InitData /\ InitMemory
    /\ StageIdle /\ key = KeyStart /\ SetupIdle /\ TrainIdle

SpecApiKey == InitApiKey /\ [][NextApiKey]_vars

\* The row as monitorN8nDeployment leaves it when it has found the host.
ProvisionedRow(haveConnection) ==
    [ReadyUserRow EXCEPT
        !.n8nEncryptionKey = TRUE,
        !.n8nApiKey = createN8nApiKey(FALSE),
        !.postgresSchemaInitialized = PostgresSetup(haveConnection).postgresSchemaInitialized,
        !.n8nPostgresCredentialId = PostgresSetup(haveConnection).n8nPostgresCredentialId,
        !.postgresSetupError = PostgresSetup(haveConnection).postgresSetupError]

\* Each tenant not provisioned, provisioned by the monitor, or set up, and
\* no provisioning request.
TenantsProvisioned ==
    /\ runningMonitors = {}
    /\ user \in [Users -> {InitialUserRow, ProvisionedRow(TRUE), ProvisionedRow(FALSE),
                           SetUpUserRow}]
    /\ reqUser = [r \in Requests |-> "u1"]
    /\ pc = [r \in Requests |-> "start"]
    /\ resp = [r \in Requests |-> "none"]
    /\ mon = [r \in Requests |-> IdleMonitor]
    /\ templateRuns = {}

\* Two requests to memories/setup.
InitSetup == TenantsProvisioned /\ InitData /\ InitMemory /\ InitAux

SpecSetup == InitSetup /\ [][NextSetup]_vars

\* The tenants of TenantsAtRest with the counters their memories have
\* brought them to.
TenantsWithMemories ==
    /\ runningMonitors = {}
    /\ \E row \in {InitialUserRow, ReadyUserRow, SetUpUserRow}, c \in CounterPopulations :
          user = [u \in Users |->
                    [(IF u = "u1" THEN SetUpUserRow ELSE row) EXCEPT
                        !.goodChannelCount = c.good,
                        !.badChannelCount = c.bad,
                        !.mclChainCount = c.mcl]]
    /\ reqUser = [r \in Requests |-> "u1"]
    /\ pc = [r \in Requests |-> "start"]
    /\ resp = [r \in Requests |-> "none"]
    /\ mon = [r \in Requests |-> IdleMonitor]
    /\ templateRuns = {}

\* Two training requests and one request to memories POST.
InitTraining ==
    /\ TenantsWithMemories /\ InitData /\ InitMemory
    /\ StageIdle /\ KeyIdle /\ SetupIdle /\ InitTrain

SpecTraining == InitTraining /\ [][NextTraining]_vars

\* Both provisioning requests have been answered 400 for a missing field.
ProvisionAnswered(rows) ==
    /\ runningMonitors = {}
    /\ user = rows
    /\ reqUser = [r \in Requests |-> "u1"]
    /\ pc = [r \in Requests |-> "done"]
    /\ resp = [r \in Requests |-> "400"]
    /\ mon = [r \in Requests |-> IdleMonitor]
    /\ templateRuns = {}

\* The tenant of each training request.
RunOf(t) == IF t = "t1" THEN "u1" ELSE "u2"

\* The row of a tenant whose start request has just been answered 200.
TrainingUserRow ==
    [SetUpUserRow EXCEPT !.goodChannelCount = 5, !.badChannelCount = 3,
                         !.mclChainCount = 2, !.loraTrainingStatus = "training"]

\* Each tenant has started a training run: lora/train POST has answered 200
\* and the monitor of the run is about to sleep for the first time.
RunsStarted ==
    /\ train = [t \in TrainRequests |->
                  [handler |-> "train POST", caller |-> RunOf(t), pc |-> "done",
                   resp |-> "200 Training started successfully", wrote |-> TRUE]]
    /\ tmon = [t \in TrainRequests |-> [IdleTrainMonitor EXCEPT !.pc = "loop"]]
    /\ training_jobs = [t \in TrainRequests |-> "running"]
    /\ samples = [u \in Users |-> CHOOSE q \in SamplePopulations : q.pending = 0]
    /\ pendingApproval = [u \in Users |-> FALSE]
    /\ user = [u \in Users |-> TrainingUserRow]

\* The three loops, one kind at a time: the provisioning requests with the
\* deployment monitors they start, one call of createN8nApiKey, or the
\* monitors of two training runs.
InitLoops ==
    /\ InitData /\ InitMemory /\ StageIdle /\ SetupIdle
    /\ \/ InitProvision /\ KeyIdle /\ TrainIdle
       \/ ProvisionAnswered([u \in Users |-> InitialUserRow]) /\ key = KeyStart /\ TrainIdle
       \/ ProvisionAnswered([u \in Users |-> TrainingUserRow]) /\ KeyIdle /\ RunsStarted

NextLoops ==
    \/ NextProvision
    \/ NextApiKey
    \/ \E t \in TrainRequests : TrainMonitorStep(t)

\* Every continuation whose awaited call or timer has settled is run.
SpecLoops ==
    /\ InitLoops /\ [][NextLoops]_vars
    /\ \A r \in Requests :
          /\ WF_vars(HandlerStep(r) /\ UNCHANGED <<dataVars, memVars, auxVars>>)
          /\ WF_vars(MonitorStep(r) /\ UNCHANGED <<dataVars, memVars, auxVars>>)
    /\ WF_vars(NextApiKey)
    /\ \A t \in TrainRequests : WF_vars(TrainMonitorStep(t))

\* The row of a tenant that is set up and has never trained, with counters
\* at the thresholds.
TrainableUserRow == [TrainingUserRow EXCEPT !.loraTrainingStatus = "null"]

\* Tenants ready to train, with ten approved samples, one pending and one
\* that needs support; no training request made yet.
InitRuns ==
    /\ ProvisionAnswered([u \in Users |-> TrainableUserRow])
    /\ InitData /\ InitMemory /\ StageIdle /\ KeyIdle /\ SetupIdle
    /\ train = [t \in TrainRequests |-> NoTrain]
    /\ tmon = [t \in TrainRequests |-> IdleTrainMonitor]
    /\ training_jobs = [t \in TrainRequests |-> "none"]
    /\ samples = [u \in Users |-> CHOOSE q \in SamplePopulations : q.support > 0]
    /\ pendingApproval = [u \in Users |-> TRUE]

\* Start and cancel requests with the monitors the start requests start.
NextRuns ==
    \E t \in TrainRequests :
       \/ Train_Begin(t) \/ TrainEthical_Begin(t) \/ Train_DELETE(t)
       \/ TrainStep(t)
       \/ TrainMonitorStep(t)

\* A request that has arrived is served to its response, and the timers and
\* awaited calls of a monitor settle; no request has to arrive.
SpecRuns ==
    /\ InitRuns /\ [][NextRuns]_vars
    /\ \A t \in TrainRequests : WF_vars(TrainStep(t)) /\ WF_vars(TrainMonitorStep(t))

InitHandlers == TenantsAtRest /\ InitData /\ InitMemory /\ InitAux

\* Requests to the memories, webhook and chat handlers, one after another.
SpecMemory == InitHandlers /\ [][NextMemory]_vars


(***************************************************************************)
(* provision-northflank: properties                                        *)
(***************************************************************************)
Status(u) == user[u].northflankProjectStatus

\* The step in which monitor r writes 'timeout'.
WritesTimeout(r) == mon[r].wrote # "timeout" /\ mon'[r].wrote = "timeout"

\* C1: of two provisioning requests for the same tenant that are in flight
\* together, only one starts a template run and a deployment monitor: no two
\* monitors started by accepted template runs of one tenant run at once.
C1_OneWorkflowPerTenant ==
    \A a, b \in Requests :
      (a # b /\ reqUser[a] = reqUser[b] /\ a \in templateRuns /\ b \in templateRuns)
        => ~(Monitoring(a) /\ Monitoring(b))

PollsWithinCeiling == \A r \in Requests : mon[r].elapsed <= MaxPolls

StopsAtTerminal ==
    \A r \in Requests :
      (Monitoring(r) /\ mon'[r].pc = "returned" /\ mon'[r].wrote # "ready")
        => Status(reqUser[r])' \in {"failed", "timeout"}

\* C2: the monitor polls only within the ceiling and then stops; when it
\* stops without having written 'ready' the step that ends it leaves the
\* status at failed or timeout; a status of initiated or deploying does not
\* last forever.
C2_MonitorEndsTerminal ==
    /\ []PollsWithinCeiling
    /\ [][StopsAtTerminal]_vars
    /\ \A r \in Requests : Monitoring(r) ~> (mon[r].pc = "done")
    /\ \A u \in Users :
         (Status(u) \in {"initiated", "deploying"}) ~> (Status(u) \notin {"initiated", "deploying"})

C2_Witness ==
    \E r \in Requests :
      /\ mon[r].pc = "done" /\ mon[r].wrote = "timeout" /\ mon[r].elapsed = MaxPolls
      /\ Status(reqUser[r]) = "timeout"

\* C8 as claimed: a status of ready implies that the schema was initialised
\* and the Postgres credential created.
C8_ReadyImpliesSetupDone ==
    \A u \in Users :
      Status(u) = "ready" =>
        user[u].postgresSchemaInitialized /\ user[u].n8nPostgresCredentialId # "none"

\* C8 as amended: a status of ready implies that the host was found (n8nUrl,
\* an API key and the project id are recorded); the secondary steps are
\* recorded as they went, with postgresSetupError set unless both succeeded.
C8_ReadyImpliesHostFound ==
    \A u \in Users :
      Status(u) = "ready" =>
        /\ user[u].n8nUrl
        /\ user[u].n8nApiKey # "none"
        /\ user[u].northflankProjectId # NoProject
        /\ (user[u].postgresSetupError = NoError) <=>
             (user[u].postgresSchemaInitialized /\ user[u].n8nPostgresCredentialId # "none")

C8_Witness ==
    \E u \in Users :
      /\ Status(u) = "ready"
      /\ ~user[u].postgresSchemaInitialized
      /\ user[u].postgresSetupError = "adminConnection is not defined"

\* C9 as claimed: once the status is failed or timeout no step changes it.
C9_FailedTimeoutAbsorbing ==
    [][\A u \in Users : Status(u) \in {"failed", "timeout"} => Status(u)' = Status(u)]_vars

\* C9 as amended: the monitor that wrote timeout writes nothing afterwards;
\* the status leaves failed or timeout only by a provisioning request that
\* writes initiated or manual, or by the write of another monitor of the
\* same tenant that is still running.
C9_TerminalForTheAttempt ==
    [][/\ \A r \in Requests : mon[r].wrote = "timeout" => mon'[r].wrote = "timeout"
       /\ \A u \in Users :
            (Status(u) \in {"failed", "timeout"} /\ Status(u)' # Status(u)) =>
              \/ /\ Status(u)' \in {"initiated", "manual"}
                 /\ \E r \in Requests : reqUser[r] = u /\ pc[r] # "done" /\ pc'[r] = "done"
              \/ \E r \in Requests :
                   /\ reqUser[r] = u /\ Monitoring(r) /\ mon[r].wrote # "timeout"
                   /\ mon'[r].wrote = Status(u)']_vars

C9_Witness ==
    \E r \in Requests :
      mon[r].pc = "done" /\ mon[r].wrote = "timeout" /\ Status(reqUser[r]) = "initiated"

\* C10 as claimed: the monitor writes timeout only when the status before
\* the write is deploying and it has resolved a project id.
C10_TimeoutOnlyFromDeploying ==
    [][\A r \in Requests :
         WritesTimeout(r) =>
           Status(reqUser[r]) = "deploying" /\ mon[r].projectId # NoProject]_vars

\* C10 as amended: the monitor writes timeout when its budget is exhausted
\* and it has not found the host; its own last write was initiated (no
\* project id resolved) or deploying (project id resolved), never ready.
C10_TimeoutFromInitiatedOrDeploying ==
    [][\A r \in Requests :
         WritesTimeout(r) =>
           /\ ~mon[r].n8nFound
           /\ mon[r].elapsed >= MaxPolls
           /\ mon[r].wrote \in {"initiated", "deploying"}
           /\ (mon[r].wrote = "deploying") <=> (mon[r].projectId # NoProject)]_vars

C10_Witness ==
    \E r \in Requests :
      /\ mon[r].wrote = "timeout" /\ mon[r].projectId = NoProject
      /\ Status(reqUser[r]) = "timeout"

\* C11: when the handler of a request whose body named the tenant reaches
\* its outer catch, the step that answers 500 leaves the tenant's status at
\* failed with n8nSetupError equal to the error message, and the tenant out
\* of runningMonitors.
C11_CatchPersistsFailed ==
    [][\A r \in Requests :
         (pc[r] = "catch" /\ pc'[r] = "done") =>
           /\ Status(reqUser[r])' = "failed"
           /\ user'[reqUser[r]].n8nSetupError = "err.message"
           /\ reqUser[r] \notin runningMonitors']_vars

\* The step writes 'deploying' into the row of u.
WritesDeploying(u) ==
    \/ Status(u) # "deploying" /\ Status(u)' = "deploying"
    \/ \E r \in Requests :
          reqUser[r] = u /\ mon[r].wrote # "deploying" /\ mon'[r].wrote = "deploying"

\* C17: a status of deploying implies that northflankProjectId is set, and
\* the update that writes deploying is the one in which a monitor of that
\* tenant records the project id it has just resolved.
C17_DeployingHasProjectId ==
    /\ [](\A u \in Users :
            Status(u) = "deploying" => user[u].northflankProjectId # NoProject)
    /\ [][\A u \in Users :
            WritesDeploying(u) =>
              \E r \in Requests :
                /\ reqUser[r] = u
                /\ mon[r].projectId = NoProject
                /\ mon'[r].projectId = TemplateProject(r)
                /\ user'[u].northflankProjectId = mon'[r].projectId]_vars

C17_Witness ==
    \E r \in Requests :
      /\ mon[r].wrote = "deploying"
      /\ Status(reqUser[r]) = "deploying"
      /\ user[reqUser[r]].northflankProjectId = TemplateProject(r)

\* A provisioning attempt of u is between its runningMonitors.add and the
\* start of its monitor.
StartingTemplate(u) == \E r \in Requests : reqUser[r] = u /\ pc[r] = "template"

\* A monitor of u has not settled, or its .finally callback has yet to run.
MonitorRunning(u) ==
    \E r \in Requests : reqUser[r] = u /\ (Monitoring(r) \/ mon[r].pc = "returned")

\* C20 as claimed: a tenant is in runningMonitors only while a deployment
\* monitor of that tenant is running.
C20_OnlyWhileMonitorRuns == \A u \in runningMonitors : MonitorRunning(u)

\* C20 as amended: a tenant is in runningMonitors only while one of its
\* provisioning attempts is awaiting the template start or has its monitor
\* running, and a tenant in the set is eventually out of it.
C20_NoLeak ==
    /\ [](\A u \in runningMonitors : StartingTemplate(u) \/ MonitorRunning(u))
    /\ \A u \in Users : (u \in runningMonitors) ~> (u \notin runningMonitors)

C20_Witness ==
    \E a, b \in Requests :
      /\ mon[a].pc = "done" /\ mon[a].wrote \in {"ready", "timeout"}
      /\ resp[b] \in {"manual", "500"} /\ pc[b] = "done"
      /\ reqUser[a] \notin runningMonitors
      /\ reqUser[b] \notin runningMonitors

(***************************************************************************)
(* Migration and profile: properties                                       *)
(***************************************************************************)
\* C3: a migration step never adds a copy of a legacy row whose
\* migrated_to_interaction_memory flag is TRUE, and while every legacy row is
\* flagged a migration inserts no row at all.
C3_FlaggedRowsNotCopiedAgain ==
    [][/\ \A i \in LegacyIds :
            legacy[i].migrated_to_interaction_memory =>
                Copies(interaction_memories', i) = Copies(interaction_memories, i)
       /\ MigrationComplete => interaction_memories' = interaction_memories]_vars

\* A run that began after a completed migration has gone through all four
\* channels, and the rows are there once each.
C3_Witness ==
    /\ mig["m2"].rerun
    /\ mig["m2"].phase = "done"
    /\ mig["m1"].phase = "done"
    /\ \A i \in LegacyIds :
          /\ legacy[i].migrated_to_interaction_memory
          /\ Copies(interaction_memories, i) = 1

\* C4: whatever the interleaving of two migration runs, and whenever a run
\* stops between its INSERT ... SELECT and its flag UPDATE and another run
\* follows, each legacy row has at most one copy in interaction_memories.
C4_EachRowCopiedAtMostOnce ==
    \A i \in LegacyIds : Copies(interaction_memories, i) <= 1

\* Profiles a recomputation may find: the column defaults, and another one.
PreviousProfiles ==
    {NewProfile(0),
     [exists |-> TRUE, scores |-> Vec(90, 80, 70, 60, 50, 40, 30),
      growth_stage |-> 5, total_interactions |-> 7, breakthrough_moments |-> 3]}

RecomputeDefaults(by) == IF by = "post" THEN RecalcDefaults ELSE UpdateDefaults

\* C5: once a recomputation (the profile POST or updateEthicalProfile) has
\* written a user's profile from the memories the user has, running it again
\* over those memories leaves the profile as it is, and the profile is what
\* the recomputation makes of those memories from any previous profile.
C5_RecomputationIsIdempotent ==
    \A u \in Users :
      recalcBy[u].by # "none" =>
        LET stats == Aggregate(interaction_memories, u)
            defaults == RecomputeDefaults(recalcBy[u].by)
        IN  /\ Recomputed(profiles[u], stats, defaults) = profiles[u]
            /\ \A prev \in PreviousProfiles :
                  Recomputed(prev, stats, defaults) = profiles[u]

\* The profile POST has run twice in a row over two or more memories and the
\* profile is not the column defaults.
C5_Witness ==
    \E u \in Users :
      /\ recalcBy[u].by = "post"
      /\ recalcBy[u].twice
      /\ recalc[u].resp = "Profile recalculated"
      /\ Len(UserMemories(interaction_memories, u)) >= 2
      /\ profiles[u].scores # DefaultScores

(***************************************************************************)
(* Memories, webhook and chat: properties                                  *)
(***************************************************************************)
\* C6: whenever a handler's call to the gating service fails (network error,
\* timeout or a response that is not 2xx), the handler goes on with the
\* routing 'review' and does not answer the failure as an error.
C6_GatingFailureFallsBackToReview ==
    last.gating \in GatingFailures =>
        last.routing = "review" /\ last.error \notin {"Gating service failed",
                                                      "fetch failed",
                                                      "Unexpected token"}

\* C7: a delete of a well-formed id that names no row of the requesting
\* tenant is answered 404 'Memory not found or access denied' and removes
\* nothing, and a delete removes only rows of the tenant who asked.
C7_ForeignDeleteIsNotFound ==
    /\ (last.queried /\ ~last.owned /\ last.target # MalformedId) =>
          /\ last.status = 404
          /\ last.error = "Memory not found or access denied"
          /\ last.removed = {}
    /\ \A row \in last.removed : row.user_id = last.caller

\* C14: a request without an authenticated identity is not served: it is
\* answered with an error before the handler has called the gating service,
\* and the step that answers it changes no user row and no memory row.
C14_NoIdentityNoService ==
    [][last'.session = Anonymous /\ last'.handler # "none" =>
          /\ last'.status # 200
          /\ last'.gating = "none"
          /\ user' = user
          /\ memory_embeddings' = memory_embeddings]_vars

\* C15: a memory POST or webhook event answered with success has its text
\* in a channel table (the gating service answered and filed it) or in
\* memory_embeddings (the insert happened), also when the routing is the
\* fallback 'review'.
C15_SuccessMeansStored ==
    (/\ last.handler \in {"memories/route.ts POST", "part_005 POST",
                          "n8n-conversation POST"}
     /\ last.status = 200) =>
        last.gating \in Routings \/ last.inserted

(***************************************************************************)
(* Growth stage: properties                                                *)
(***************************************************************************)
\* Seven times the average of the scores a recomputation stores.
StoredSum(defaults) ==
    SumScores([d \in Dims |-> OrDefault(stage.in.avg[d], defaults[d])])

\* The stage of the claim's table for seven times the average.
StageWithin(st, sum) ==
    /\ st \in 1..5
    /\ (st = 1) <=> (sum < 210)
    /\ (st = 2) <=> (210 <= sum /\ sum < 350)
    /\ (st = 3) <=> (350 <= sum /\ sum < 490)
    /\ (st = 4) <=> (490 <= sum /\ sum < 595)
    /\ (st = 5) <=> (595 <= sum)

C18_FallbackAfterFifthAttempt ==
    /\ key.result = "pregenerated" => Len(key.outcomes) = maxRetries
    /\ \A k \in 1..Len(key.waited) : key.waited[k] = 15 * k

\* C18: createN8nApiKey makes at most five attempts; failed attempt k < 5 is
\* followed by a wait of 15 s * k, the fifth by 75 s after a failed health
\* check and by no wait otherwise; a call that has returned has returned a
\* key: the created one right after the attempt that created it, the
\* pre-generated one after five failed attempts or when the credentials
\* could not be encoded before the first attempt.
C18_BoundedLinearRetry ==
    /\ key.attempt <= maxRetries + 1
    /\ Len(key.outcomes) <= maxRetries
    /\ \A k \in 1..Len(key.waited) :
          /\ key.outcomes[k] # "created"
          /\ k < maxRetries => key.waited[k] = 15 * k
          /\ k = maxRetries =>
                key.waited[k] = IF key.outcomes[k] = "unhealthy" THEN 75 ELSE 0
    /\ key.pc = "returned" <=> key.result \in {"rest", "pregenerated"}
    /\ key.result = "rest" =>
          /\ key.outcomes[Len(key.outcomes)] = "created"
          /\ Len(key.waited) = Len(key.outcomes) - 1
    /\ key.result = "pregenerated" =>
          \/ /\ Len(key.outcomes) = maxRetries
             /\ Len(key.waited) = maxRetries
             /\ ~key.critical
          \/ key.critical /\ key.outcomes = <<>>

\* Five failed attempts, the last not by its health check, then the
\* pre-generated key.
C18_Witness ==
    /\ key.pc = "returned" /\ key.result = "pregenerated"
    /\ key.waited = <<15, 30, 45, 60, 0>>

(***************************************************************************)
(* memories/setup: properties                                              *)
(***************************************************************************)
SetupPartial(u) ==
    user[u].postgresSchemaInitialized /\ user[u].n8nPostgresCredentialId = "none"

\* C16: when the schema step succeeded and credential creation fails, the
\* update records postgresSchemaInitialized = true and the error message
\* and writes no credential id; a row with the schema initialized and no
\* credential id carries an error; and a setup request made on such a row is
\* not answered 'already initialized' but goes on towards the credential
\* step.
C16_PartialSetupRecorded ==
    /\ [](\A u \in Users : SetupPartial(u) => user[u].postgresSetupError # NoError)
    /\ [][\A s \in SetupRequests :
            /\ (setup[s].pc = "credential" /\ setup'[s].resp = "500 credential") =>
                  LET u == setup[s].caller
                  IN  /\ user'[u].postgresSchemaInitialized
                      /\ user'[u].postgresSetupError \in CredentialErrors
                      /\ user'[u].n8nPostgresCredentialId = user[u].n8nPostgresCredentialId
            /\ (/\ setup[s].pc = "start" /\ setup'[s].pc # "start"
                /\ setup'[s].caller \in Users
                /\ SetupPartial(setup'[s].caller)) =>
                  /\ setup'[s].pc = "connection"
                  /\ setup'[s].resp = "none"]_vars

\* One request failed at the credential step and left the partial row; the
\* other, made on that row, has come to the credential step again.
C16_Witness ==
    \E a, b \in SetupRequests :
      /\ setup[a].resp = "500 credential"
      /\ setup[b].caller = setup[a].caller /\ setup[b].pc = "credential"
      /\ SetupPartial(setup[a].caller)
      /\ user[setup[a].caller].postgresSetupError \in CredentialErrors

(***************************************************************************)
(* Requests answered 4xx: properties                                       *)
(***************************************************************************)
ClientErrors ==
    {"401 Unauthorized", "400 Project not found", "400 Database not initialized",
     "409 Training already in progress", "400 Not enough training data",
     "400 Not enough good channel data", "400 Not enough approved training data",
     "400 Still not enough data after auto-approval", "400 No training in progress"}

\* The rows of the application database and of the tenant databases.
Persisted ==
    <<user, memory_embeddings, training_jobs, samples, pendingApproval,
      legacy, interaction_memories, profiles>>

\* C13: a training or memory request that is answered 4xx has changed no
\* persisted row: the step that answers changes none, and the request has
\* made no write before it (a request is marked as having written by every
\* step of it that changes a row).
C13_RejectedLeavesNoTrace ==
    /\ [](\A t \in TrainRequests : train[t].resp \in ClientErrors => ~train[t].wrote)
    /\ [][/\ \A t \in TrainRequests :
              /\ (train'[t].resp \in ClientErrors /\ train[t].resp \notin ClientErrors)
                    => Persisted' = Persisted
              /\ (train'[t] # train[t] /\ Persisted' # Persisted) => train'[t].wrote
          /\ (last' # last /\ last'.status \in 400..499) => Persisted' = Persisted]_vars

\* A start request answered 409 after another request of the tenant has
\* set the status, and a memory request answered 400.
C13_Witness ==
    /\ \E a, b \in TrainRequests :
          /\ train[a].resp = "409 Training already in progress"
          /\ train[b].caller = train[a].caller /\ train[b].wrote
    /\ last.status = 400

(***************************************************************************)
(* The retry and polling loops: properties                                 *)
(***************************************************************************)
WithinCeilings ==
    /\ \A r \in Requests : mon[r].elapsed <= MaxPolls
    /\ Len(key.outcomes) <= maxRetries
    /\ \A t \in TrainRequests :
          /\ tmon[t].attempts <= maxAttempts
          /\ tmon[t].consecutiveErrors <= maxConsecutiveErrors

\* The step in which a loop is left because its ceiling is reached.
DeploymentExhausted(r) ==
    mon[r].pc = "poll" /\ ~LoopCondition(mon[r]) /\ mon'[r] # mon[r]

TrainingExhausted(t) ==
    tmon[t].pc # "done" /\ tmon'[t].pc = "done" /\ tmon[t].attempts >= maxAttempts

TrainingGaveUp(t) ==
    tmon[t].exit # "gave up" /\ tmon'[t].exit = "gave up"

\* C12: the deployment monitor, createN8nApiKey and the training monitor
\* stay within their ceilings and end; the step in which the deployment
\* monitor exhausts its polls writes timeout, the step in which the
\* training monitor ends after its last attempt writes failed with the
\* timeout message, and the step in which it gives up after consecutive
\* errors writes failed with the monitoring message.
C12_LoopsEndWithinCeilings ==
    /\ []WithinCeilings
    /\ [][/\ \A r \in Requests :
              DeploymentExhausted(r) =>
                /\ Status(reqUser[r])' = "timeout"
                /\ user'[reqUser[r]].n8nSetupError = "N8N_HOST not available within time limit"
          /\ \A t \in TrainRequests :
              /\ TrainingExhausted(t) =>
                    /\ user'[train[t].caller].loraTrainingStatus = "failed"
                    /\ user'[train[t].caller].loraTrainingError =
                          "Training timeout - may still be running"
              /\ TrainingGaveUp(t) =>
                    /\ user'[train[t].caller].loraTrainingStatus = "failed"
                    /\ user'[train[t].caller].loraTrainingError =
                          "Monitoring failed: message"]_vars
    /\ \A r \in Requests : (mon[r].pc # "idle") ~> (mon[r].pc = "done")
    /\ (key.pc # "idle") ~> (key.pc = "returned")
    /\ \A t \in TrainRequests : (tmon[t].pc # "idle") ~> (tmon[t].pc = "done")

\* A training monitor has ended after its last attempt, with the timeout
\* recorded on the row of its tenant.
C12_Witness ==
    \E t \in TrainRequests :
      /\ tmon[t].pc = "done" /\ tmon[t].exit = "exhausted"
      /\ tmon[t].attempts = maxAttempts
      /\ user[train[t].caller].loraTrainingStatus = "failed"
      /\ user[train[t].caller].loraTrainingError = "Training timeout - may still be running"

(***************************************************************************)
(* Training runs: properties                                               *)
(***************************************************************************)
StartHandlers == {"train POST", "train POST (ethical growth)"}

StartedResponses ==
    {"200 Training started successfully",
     "200 Ethical growth training started successfully"}

\* Request t is a start request that has inserted its training_jobs row and
\* has triggered its job run, the row still being 'running'.
RunTriggered(t) ==
    /\ train[t].handler \in StartHandlers
    /\ train[t].resp \in StartedResponses
    /\ training_jobs[t] = "running"

\* C21: of two start requests for the same tenant, at most one triggers a
\* job run and inserts a training_jobs row while the tenant's status is
\* training: no tenant has two triggered runs whose rows are both running.
C21_OneRunPerTenant ==
    \A a, b \in TrainRequests :
      (a # b /\ train[a].caller = train[b].caller /\ RunTriggered(a))
         => ~(RunTriggered(b) /\ user[train[a].caller].loraTrainingStatus = "training")

\* The thresholds of the channel-count version on the counters of a user
\* row, and of the ethical-growth version on the approved rows.
ChannelThresholds(u) ==
    /\ user[u].goodChannelCount + user[u].badChannelCount + user[u].mclChainCount
          >= MinSamples
    /\ user[u].goodChannelCount >= MinGood

ApprovedThreshold(u) == samples[u].approved >= MinSamples

DataRejections ==
    {"400 Not enough training data", "400 Not enough good channel data",
     "400 Not enough approved training data",
     "400 Still not enough data after auto-approval"}

\* A start request, as recorded in rec, has passed the validation of its
\* data and has not answered yet.
ValidationDone(rec) ==
    /\ rec.handler \in StartHandlers
    /\ rec.pc \in {"approve", "setTraining", "logJob", "jobCheck", "trigger"}
                \cup (IF rec.handler = "train POST" THEN {"connection"} ELSE {})

\* C22: a start request passes the validation of its data only in a state
\* where the thresholds hold (total >= 10 and good >= 5 on the counters, or
\* approved >= 10); only a request that has passed it writes the status
\* training, inserts a training_jobs row or answers that a run was
\* triggered; and a request answered 400 for its data is answered in a
\* state below the threshold, by a step that changes no row, having written
\* nothing before and having no training_jobs row.
C22_TrainingNeedsMinimumData ==
    /\ [](\A t \in TrainRequests :
            train[t].resp \in DataRejections =>
               ~train[t].wrote /\ training_jobs[t] = "none")
    /\ [][\A t \in TrainRequests :
            /\ (~ValidationDone(train[t]) /\ ValidationDone(train'[t]))
                  => IF train'[t].handler = "train POST"
                     THEN ChannelThresholds(train'[t].caller)
                     ELSE ApprovedThreshold(train'[t].caller)
            /\ (train'[t] # train[t] /\ train'[t].handler \in StartHandlers
                  /\ (user' # user \/ training_jobs' # training_jobs
                         \/ train'[t].resp \in StartedResponses))
                  => ValidationDone(train[t])
            /\ (train'[t].resp \in DataRejections /\ train[t].resp = "none")
                  => /\ user' = user /\ training_jobs' = training_jobs
                     /\ IF train'[t].handler = "train POST"
                        THEN ~ChannelThresholds(train'[t].caller)
                        ELSE ~ApprovedThreshold(train'[t].caller)]_vars

\* A tenant with 7 approved samples and counters 5/3/2: the ethical-growth
\* request was answered 400 and the channel-count request has triggered its
\* run with exactly 5 good samples of 10.
C22_Witness ==
    \E a, b \in TrainRequests :
      /\ train[a].resp = "400 Not enough approved training data"
      /\ train[b].caller = train[a].caller
      /\ train[b].handler = "train POST" /\ RunTriggered(b)
      /\ user[train[b].caller].goodChannelCount = MinGood
      /\ user[train[b].caller].badChannelCount + user[train[b].caller].mclChainCount
            = MinSamples - MinGood

(***************************************************************************)
(* Channel counters: properties                                            *)
(***************************************************************************)
CountingHandlers ==
    {"memories/route.ts POST", "part_005 POST", "n8n-conversation POST"}

\* What a call answered with this routing adds to a counter of its tenant.
Increment(routing, channel) == IF routing = channel THEN 1 ELSE 0

\* C23: a memories POST or webhook event answered 200 adds exactly 1 to
\* goodChannelCount when the routing is 'good', exactly 1 to badChannelCount
\* when it is 'bad', and nothing otherwise ('review' of the gating service
\* or of the fallback after a failed gating call); it changes no counter of
\* another tenant; a call of these handlers that is not answered 200 changes
\* no counter; and no handler changes mclChainCount.  The response of the
\* call made in a step is last'.
C23_CountersFollowRouting ==
    [][(last' # last \/ user' # user) =>
         /\ \A u \in Users : user'[u].mclChainCount = user[u].mclChainCount
         /\ last'.handler \in CountingHandlers =>
              \A u \in Users :
                 LET mine == last'.status = 200 /\ u = last'.caller
                 IN  /\ user'[u].goodChannelCount = user[u].goodChannelCount
                          + (IF mine THEN Increment(last'.routing, "good") ELSE 0)
                     /\ user'[u].badChannelCount = user[u].badChannelCount
                          + (IF mine THEN Increment(last'.routing, "bad") ELSE 0)]_vars

\* After a memory routed 'good' was counted, a call whose gating request
\* failed was answered 200 with the fallback routing 'review', and the
\* counters of the tenant still show that one memory only.
C23_Witness ==
    /\ last.handler \in CountingHandlers /\ last.status = 200
    /\ last.gating \in GatingFailures /\ last.routing = "review"
    /\ last.caller \in Users
    /\ user[last.caller].goodChannelCount = 1
    /\ user[last.caller].badChannelCount = 0
    /\ user[last.caller].mclChainCount = 0

(***************************************************************************)
(* provision-northflank: existing project and manual fallback              *)
(***************************************************************************)
\* C24: a provisioning request that found a project id on the row of its
\* tenant starts nothing new whatever the fetch of the project gives: the
\* step that follows the fetch ends the request (the 'existing' response, or
\* a 500 when the fetch is rejected), starts no template run and no monitor
\* and adds nothing to runningMonitors.
C24_ExistingProjectKept ==
    [][\A r \in Requests :
          (pc[r] = "existing" /\ pc'[r] # "existing") =>
             /\ pc'[r] \in {"done", "catch"}
             /\ pc'[r] = "done" => resp'[r] = "existing"
             /\ runningMonitors' = runningMonitors
             /\ templateRuns' = templateRuns /\ mon' = mon]_vars

\* The step in which request r answers after createCompleteProject resolved.
AnswersManual(r) == pc[r] = "manual" /\ pc'[r] = "done" /\ resp'[r] = "manual"

\* Another request of the tenant of r holds an entry of its own in
\* runningMonitors: it awaits its template start, or its monitor has not
\* run its .finally callback yet.
OtherAttempt(r) ==
    \E o \in Requests \ {r} :
       /\ reqUser[o] = reqUser[r]
       /\ pc[o] = "template" \/ Monitoring(o) \/ mon[o].pc = "returned"

TrainingStatus(u) == user[u].loraTrainingStatus

\* The monitor of run t has seen a terminal status of the run, has written
\* it to the user row and to the training_jobs row and has left the loop.
LeftLoopAtTerminal(t) == tmon[t].pc = "after" /\ tmon[t].exit = "terminal"

\* C26: a monitor that has recorded the terminal status it observed and has
\* left its loop writes no status afterwards: the step that ends it leaves
\* loraTrainingStatus and loraTrainingError of its tenant as recorded.
C26_TerminalNotOverwritten ==
    [][\A t \in TrainRequests :
          (LeftLoopAtTerminal(t) /\ tmon'[t] # tmon[t]) =>
             /\ TrainingStatus(train[t].caller)' = Recorded(tmon[t].observed)
             /\ user'[train[t].caller].loraTrainingError = RecordedError(tmon[t].observed)]_vars

RunEnded == {"completed", "failed", "cancelled"}

\* C27: whenever loraTrainingStatus of a tenant is training it is eventually
\* completed, failed or cancelled.
C27_TrainingEnds ==
    \A u \in Users : (TrainingStatus(u) = "training") ~> (TrainingStatus(u) \in RunEnded)

\* C28: when the monitor of a run has ended and loraTrainingStatus of the
\* tenant is completed, failed or cancelled, the training_jobs row of the
\* run is no longer 'running'.
C28_JobRowFollowsUserRow ==
    \A t \in TrainRequests :
      (tmon[t].pc = "done" /\ TrainingStatus(train[t].caller) \in RunEnded)
         => training_jobs[t] # "running"

\* C30: after a cancel request has set loraTrainingStatus of its tenant to
\* cancelled, no step of a training monitor changes the status: the monitor
\* of the cancelled run does not overwrite it with completed or failed.
C30_CancelSticks ==
    [][\A d \in TrainRequests :
          (/\ train[d].handler = "train DELETE"
           /\ train[d].resp = "200 Training cancelled"
           /\ TrainingStatus(train[d].caller) = "cancelled"
           /\ tmon' # tmon)
             => TrainingStatus(train[d].caller)' = "cancelled"]_vars

(***************************************************************************)
(* Migration: no legacy row is lost                                        *)
(***************************************************************************)
\* C29: every legacy row whose migrated_to_interaction_memory flag is TRUE
\* has a copy in interaction_memories.
C29_FlaggedRowsWereCopied ==
    \A i \in LegacyIds :
      (legacy[i].present /\ legacy[i].migrated_to_interaction_memory)
         => Copies(interaction_memories, i) >= 1

====
